---- MODULE Spec2Model ----
(***************************************************************************)
(* A model of the Domain set-up code of reLULESH (src/lulesh.h, which      *)
(* holds both the Domain class and the lulesh-init routines) and of the    *)
(* hexahedron volume routine CalcElemVolume (src/unnamed/part_000).        *)
(*                                                                         *)
(* Real_t values are modelled as exact rationals <<n, d>> (d > 0, lowest   *)
(* terms); floating-point rounding is not modelled.                        *)
(***************************************************************************)
EXTENDS Integers, Sequences, FiniteSets, TLC

(***************************************************************************)
(* Bounds of the model.                                                    *)
(***************************************************************************)
\* largest number of elements along a subdomain edge (-s)
MaxNx == 2
\* largest number of subdomains along an edge of the global cube
MaxTp == 2
\* largest number of regions (-r)
MaxNr == 2
\* largest region-balance exponent (-b); the smallest one drawn is -1
MaxBalance == 1
\* largest imbalance cost (-c)
MaxCost == 2
\* largest MPI rank seen by CreateRegionIndexSets (0 in a build without MPI)
MaxRank == 0
\* largest element count with which CreateRegionIndexSets is entered alone
MaxElems == 8
\* largest chunk length drawn in CreateRegionIndexSets
MaxChunk == 4
\* a multi-region constructor run is drawn only on meshes this small
MaxMultiRegionElems == 1
\* largest rank count handed to InitMeshDecomp
MaxNumRanks == 28
\* largest extent of a box handed to CalcElemVolume; the smallest is -1
MaxExtent == 4
\* largest shift of one corner coordinate of such a box, in halves
MaxShift == 1

(***************************************************************************)
(* Program constants.                                                      *)
(***************************************************************************)
XI_M_SYMM == 1
XI_M_FREE == 2
XI_M_COMM == 4
XI_P_SYMM == 8
XI_P_FREE == 16
XI_P_COMM == 32
ETA_M_SYMM == 64
ETA_M_FREE == 128
ETA_M_COMM == 256
ETA_P_SYMM == 512
ETA_P_FREE == 1024
ETA_P_COMM == 2048
ZETA_M_SYMM == 4096
ZETA_M_FREE == 8192
ZETA_M_COMM == 16384
ZETA_P_SYMM == 32768
ZETA_P_FREE == 65536
ZETA_P_COMM == 131072
\* #define XI_M 0x00007 and the five masks after it
XI_M == XI_M_SYMM + XI_M_FREE + XI_M_COMM
XI_P == XI_P_SYMM + XI_P_FREE + XI_P_COMM
ETA_M == ETA_M_SYMM + ETA_M_FREE + ETA_M_COMM
ETA_P == ETA_P_SYMM + ETA_P_FREE + ETA_P_COMM
ZETA_M == ZETA_M_SYMM + ZETA_M_FREE + ZETA_M_COMM
ZETA_P == ZETA_P_SYMM + ZETA_P_FREE + ZETA_P_COMM
MAX_FIELDS_PER_MPI_COMM == 6
\* sizeof(Real_t), Real_t being real8
SizeofReal == 8
\* 128 / sizeof(Real_t)
CACHE_COHERENCE_PAD_REAL == 128 \div SizeofReal
\* INT_MIN, the value ghostIdx[] holds for a face that does not communicate
INT_MIN == -2147483647 - 1

(***************************************************************************)
(* Exact rational arithmetic standing for Real_t.                          *)
(***************************************************************************)
Abs(a) == IF a < 0 THEN -a ELSE a

RECURSIVE Gcd(_, _)
Gcd(a, b) == IF b = 0 THEN a ELSE Gcd(b, a % b)

\* the rational n/d in lowest terms with a positive denominator
Rat(n, d) ==
  LET g == Gcd(Abs(n), Abs(d))
      s == IF d < 0 THEN -1 ELSE 1
  IN  <<s * (n \div g), s * (d \div g)>>

R(n) == <<n, 1>>
RAdd(a, b) ==
  IF a[1] = 0 THEN b
  ELSE IF b[1] = 0 THEN a
  ELSE LET g == Gcd(a[2], b[2])
       IN  Rat(a[1] * (b[2] \div g) + b[1] * (a[2] \div g), (a[2] \div g) * b[2])
RNeg(a) == <<-a[1], a[2]>>
RSub(a, b) == RAdd(a, RNeg(b))
RMul(a, b) ==
  IF a[1] = 0 \/ b[1] = 0 THEN <<0, 1>>
  ELSE LET g1 == Gcd(Abs(a[1]), b[2])
           g2 == Gcd(Abs(b[1]), a[2])
       IN  Rat((a[1] \div g1) * (b[1] \div g2), (a[2] \div g2) * (b[2] \div g1))
RDiv(a, b) == RMul(a, IF b[1] < 0 THEN <<-b[2], -b[1]>> ELSE <<b[2], b[1]>>)
RLess(a, b) == a[1] * b[2] < b[1] * a[2]
RZero == R(0)
ROne == R(1)

(***************************************************************************)
(* Integer helpers for the C operators used by the code.                   *)
(***************************************************************************)
\* a |= flag, flag a single bit
BitOr(a, flag) == IF (a \div flag) % 2 = 1 THEN a ELSE a + flag
\* a & mask, mask one of the six 3-bit face masks (lowBit its lowest bit)
FaceField(a, lowBit) == ((a \div lowBit) % 8) * lowBit
HasBit(a, flag) == (a \div flag) % 2 = 1
MAX(a, b) == IF a > b THEN a ELSE b
\* CACHE_ALIGN_REAL(n): (n + (PAD-1)) & ~(PAD-1), PAD a power of two
CACHE_ALIGN_REAL(n) ==
  ((n + (CACHE_COHERENCE_PAD_REAL - 1)) \div CACHE_COHERENCE_PAD_REAL)
    * CACHE_COHERENCE_PAD_REAL

RECURSIVE IPow(_, _)
IPow(b, e) == IF e = 0 THEN 1 ELSE b * IPow(b, e - 1)

RECURSIVE SumTo(_, _)
\* f[0] + ... + f[n-1]
SumTo(f, n) == IF n = 0 THEN 0 ELSE f[n - 1] + SumTo(f, n - 1)

RECURSIVE RSumRange(_, _, _)
\* f[lo] + ... + f[hi-1], summed by halves
RSumRange(f, lo, hi) ==
  IF hi <= lo THEN RZero
  ELSE IF hi = lo + 1 THEN f[lo]
  ELSE LET mid == (lo + hi) \div 2
       IN  RAdd(RSumRange(f, lo, mid), RSumRange(f, mid, hi))

RSumTo(f, n) == RSumRange(f, 0, n)

VARIABLES pc, args, dom, reg, imd, hex, mem, prng

vars == <<pc, args, dom, reg, imd, hex, mem, prng>>

(***************************************************************************)
(* Domain: allocation and basic field initialisation (constructor, lines   *)
(* 701-762).                                                               *)
(***************************************************************************)
ElemIdx(numElem) == 0..(numElem - 1)
NodeIdx(numNode) == 0..(numNode - 1)

\* Domain::AllocateElemPersistent: std::vector::resize value-initialises
AllocateElemPersistent(numElem) ==
  [nodeConnectivityList |-> [k \in 0..(8 * numElem - 1) |-> 0],
   m_lxim |-> [i \in ElemIdx(numElem) |-> 0],
   m_lxip |-> [i \in ElemIdx(numElem) |-> 0],
   m_letam |-> [i \in ElemIdx(numElem) |-> 0],
   m_letap |-> [i \in ElemIdx(numElem) |-> 0],
   m_lzetam |-> [i \in ElemIdx(numElem) |-> 0],
   m_lzetap |-> [i \in ElemIdx(numElem) |-> 0],
   m_elemBC |-> [i \in ElemIdx(numElem) |-> 0],
   energy |-> [i \in ElemIdx(numElem) |-> RZero],
   pressure |-> [i \in ElemIdx(numElem) |-> RZero],
   artificialViscosity |-> [i \in ElemIdx(numElem) |-> RZero],
   relativeVolume |-> [i \in ElemIdx(numElem) |-> RZero],
   referenceVolume |-> [i \in ElemIdx(numElem) |-> RZero],
   soundSpeed |-> [i \in ElemIdx(numElem) |-> RZero],
   m_elemMass |-> [i \in ElemIdx(numElem) |-> RZero]]

\* Domain::AllocateNodePersistent
AllocateNodePersistent(numNode) ==
  [nodalCoordinateX |-> [n \in NodeIdx(numNode) |-> RZero],
   nodalCoordinateY |-> [n \in NodeIdx(numNode) |-> RZero],
   nodalCoordinateZ |-> [n \in NodeIdx(numNode) |-> RZero],
   nodalVelocityX |-> [n \in NodeIdx(numNode) |-> RZero],
   nodalVelocityY |-> [n \in NodeIdx(numNode) |-> RZero],
   nodalVelocityZ |-> [n \in NodeIdx(numNode) |-> RZero],
   nodalAccelerationX |-> [n \in NodeIdx(numNode) |-> RZero],
   nodalAccelerationY |-> [n \in NodeIdx(numNode) |-> RZero],
   nodalAccelerationZ |-> [n \in NodeIdx(numNode) |-> RZero],
   nodalMass |-> [n \in NodeIdx(numNode) |-> RZero]]

\* ScalarMembers with the column and row locations stored crosswise
ScalarMembersCrossed(a, junk) ==
  LET edgeElems == a.nx
      edgeNodes == edgeElems + 1
  IN  [imbalanceCost |-> a.cost,
       m_tp |-> a.tp,
       numberOfRanks |-> a.numRanks,
       m_colLoc |-> a.rowLoc,
       m_rowLoc |-> a.colLoc,
       m_planeLoc |-> a.planeLoc,
       m_sizeX |-> edgeElems,
       m_sizeY |-> edgeElems,
       m_sizeZ |-> edgeElems,
       numberOfElements |-> edgeElems * edgeElems * edgeElems,
       numberOfNodes |-> edgeNodes * edgeNodes * edgeNodes,
       maxEdgeSize |-> junk]

\* the scalar members set at lines 701-723; maxEdgeSize is not assigned by
\* the constructor (junk is the indeterminate value the member holds)
ScalarMembers(a, junk) ==
  LET edgeElems == a.nx
      edgeNodes == edgeElems + 1
  IN  [imbalanceCost |-> a.cost,
       m_tp |-> a.tp,
       numberOfRanks |-> a.numRanks,
       m_colLoc |-> a.colLoc,
       m_rowLoc |-> a.rowLoc,
       m_planeLoc |-> a.planeLoc,
       m_sizeX |-> edgeElems,
       m_sizeY |-> edgeElems,
       m_sizeZ |-> edgeElems,
       numberOfElements |-> edgeElems * edgeElems * edgeElems,
       numberOfNodes |-> edgeNodes * edgeNodes * edgeNodes,
       maxEdgeSize |-> junk]

\* Domain::SetupCommBuffers.  The local maxEdgeSize shadows the member, so
\* only maxPlaneSize is stored; the std::vector symmetry node sets are
\* resized (value-initialised) on the subdomains at a global minimum face.
SetupCommBuffers(d, edgeNodes) ==
  LET maxEdgeSize == MAX(d.m_sizeX, MAX(d.m_sizeY, d.m_sizeZ)) + 1
      plane == [k \in 0..(edgeNodes * edgeNodes - 1) |-> 0]
      none == [k \in {} |-> 0]
  IN  [maxPlaneSize |-> CACHE_ALIGN_REAL(maxEdgeSize * maxEdgeSize),
       m_rowMin |-> IF d.m_rowLoc = 0 THEN 0 ELSE 1,
       m_rowMax |-> IF d.m_rowLoc = d.m_tp - 1 THEN 0 ELSE 1,
       m_colMin |-> IF d.m_colLoc = 0 THEN 0 ELSE 1,
       m_colMax |-> IF d.m_colLoc = d.m_tp - 1 THEN 0 ELSE 1,
       m_planeMin |-> IF d.m_planeLoc = 0 THEN 0 ELSE 1,
       m_planeMax |-> IF d.m_planeLoc = d.m_tp - 1 THEN 0 ELSE 1,
       symmetryPlaneNodesetX |-> IF d.m_colLoc = 0 THEN plane ELSE none,
       symmetryPlaneNodesetY |-> IF d.m_rowLoc = 0 THEN plane ELSE none,
       symmetryPlaneNodesetZ |-> IF d.m_planeLoc = 0 THEN plane ELSE none]

\* the values stored by the "Basic Field Initialization" loops
InitialEnergy == RZero
InitialPressure == RZero
InitialQ == RZero
InitialSoundSpeed == RZero
InitialRelativeVolume == ROne
InitialVelocity == RZero
InitialAcceleration == RZero

\* lines 735-762
BasicFieldInit(d) ==
  [d EXCEPT
     !.energy = [i \in DOMAIN @ |-> InitialEnergy],
     !.pressure = [i \in DOMAIN @ |-> InitialPressure],
     !.artificialViscosity = [i \in DOMAIN @ |-> InitialQ],
     !.soundSpeed = [i \in DOMAIN @ |-> InitialSoundSpeed],
     !.relativeVolume = [i \in DOMAIN @ |-> InitialRelativeVolume],
     !.nodalVelocityX = [n \in DOMAIN @ |-> InitialVelocity],
     !.nodalVelocityY = [n \in DOMAIN @ |-> InitialVelocity],
     !.nodalVelocityZ = [n \in DOMAIN @ |-> InitialVelocity],
     !.nodalAccelerationX = [n \in DOMAIN @ |-> InitialAcceleration],
     !.nodalAccelerationY = [n \in DOMAIN @ |-> InitialAcceleration],
     !.nodalAccelerationZ = [n \in DOMAIN @ |-> InitialAcceleration],
     !.nodalMass = [n \in DOMAIN @ |-> RZero]]

(***************************************************************************)
(* Domain::BuildMesh.                                                      *)
(***************************************************************************)
\* LatticeCoord without the factor 1.125
LatticeCoordUnscaled(loc, nx, k, meshEdgeElems) ==
  RDiv(R(loc * nx + k), R(meshEdgeElems))

\* Real_t(1.125)*Real_t(loc*nx + k)/Real_t(meshEdgeElems)
LatticeCoord(loc, nx, k, meshEdgeElems) ==
  RDiv(RMul(Rat(9, 8), R(loc * nx + k)), R(meshEdgeElems))

\* the value of tx (ty, tz) when iteration c of its loop stores it: the
\* value set before the loop for c = 0, and the one set at the end of
\* iteration c-1 otherwise
TAt(loc, nx, c, meshEdgeElems) ==
  IF c = 0 THEN LatticeCoord(loc, nx, 0, meshEdgeElems)
  ELSE LatticeCoord(loc, nx, (c - 1) + 1, meshEdgeElems)

\* the value of nidx when the element loop reaches element zidx: ++nidx
\* has run once for each of the zidx elements before it and once more for
\* each row completed before it, nidx += edgeNodes once for each plane
\* completed before it
NidxAt(zidx, edgeNodes, edgeElems) ==
  LET elemsDone == zidx
      rowsDone == zidx \div edgeElems
      planesDone == zidx \div (edgeElems * edgeElems)
  IN  elemsDone + rowsDone + planesDone * edgeNodes

\* LocalNodeOffset with corners 2 and 3 in lexicographic instead of
\* counter-clockwise order
LocalNodeOffsetLexicographic(k, edgeNodes) ==
  CASE k = 0 -> 0
    [] k = 1 -> 1
    [] k = 2 -> edgeNodes
    [] k = 3 -> edgeNodes + 1
    [] k = 4 -> edgeNodes * edgeNodes
    [] k = 5 -> edgeNodes * edgeNodes + 1
    [] k = 6 -> edgeNodes * edgeNodes + edgeNodes + 1
    [] k = 7 -> edgeNodes * edgeNodes + edgeNodes

\* localNode[k] - nidx, lines 898-905
LocalNodeOffset(k, edgeNodes) ==
  CASE k = 0 -> 0
    [] k = 1 -> 1
    [] k = 2 -> edgeNodes + 1
    [] k = 3 -> edgeNodes
    [] k = 4 -> edgeNodes * edgeNodes
    [] k = 5 -> edgeNodes * edgeNodes + 1
    [] k = 6 -> edgeNodes * edgeNodes + edgeNodes + 1
    [] k = 7 -> edgeNodes * edgeNodes + edgeNodes

BuildMesh(d, nx, edgeNodes, edgeElems) ==
  LET meshEdgeElems == d.m_tp * nx
      \* the node loop stores at nidx = plane*edgeNodes^2 + row*edgeNodes + col
      colOf(n) == n % edgeNodes
      rowOf(n) == (n \div edgeNodes) % edgeNodes
      planeOf(n) == n \div (edgeNodes * edgeNodes)
  IN  [d EXCEPT
         !.nodalCoordinateX =
            [n \in DOMAIN @ |-> TAt(d.m_colLoc, nx, colOf(n), meshEdgeElems)],
         !.nodalCoordinateY =
            [n \in DOMAIN @ |-> TAt(d.m_rowLoc, nx, rowOf(n), meshEdgeElems)],
         !.nodalCoordinateZ =
            [n \in DOMAIN @ |-> TAt(d.m_planeLoc, nx, planeOf(n), meshEdgeElems)],
         !.nodeConnectivityList =
            [k \in DOMAIN @ |->
               NidxAt(k \div 8, edgeNodes, edgeElems)
                 + LocalNodeOffset(k % 8, edgeNodes)]]

(***************************************************************************)
(* Domain::SetupSymmetryPlanes.  Iteration (i, j) stores at nidx =         *)
(* i*edgeNodes + j.                                                        *)
(***************************************************************************)
\* SymmXEntry without the row stride on j
SymmXEntryUnstrided(i, j, edgeNodes) == i * edgeNodes * edgeNodes + j

SymmZEntry(i, j, edgeNodes) == i * edgeNodes + j
SymmYEntry(i, j, edgeNodes) == i * edgeNodes * edgeNodes + j
SymmXEntry(i, j, edgeNodes) == i * edgeNodes * edgeNodes + j * edgeNodes

SetupSymmetryPlanes(d, edgeNodes) ==
  [d EXCEPT
     !.symmetryPlaneNodesetZ =
        IF d.m_planeLoc = 0
        THEN [n \in DOMAIN @ |-> SymmZEntry(n \div edgeNodes, n % edgeNodes, edgeNodes)]
        ELSE @,
     !.symmetryPlaneNodesetY =
        IF d.m_rowLoc = 0
        THEN [n \in DOMAIN @ |-> SymmYEntry(n \div edgeNodes, n % edgeNodes, edgeNodes)]
        ELSE @,
     !.symmetryPlaneNodesetX =
        IF d.m_colLoc = 0
        THEN [n \in DOMAIN @ |-> SymmXEntry(n \div edgeNodes, n % edgeNodes, edgeNodes)]
        ELSE @]

(***************************************************************************)
(* Domain::SetupElementConnectivities.                                     *)
(***************************************************************************)
\* lxim(0) = 0; lxim(i) = i-1 for i >= 1
LximInit(i) == IF i = 0 THEN 0 ELSE i - 1
\* lxip(i-1) = i for i >= 1; lxip(numElem-1) = numElem-1
LxipInit(i, numElem) == IF i = numElem - 1 THEN numElem - 1 ELSE i + 1
\* LetamInit with the stride of the xi direction
LetamInitUnitStride(i, edgeElems) == IF i < edgeElems THEN i ELSE i - 1

\* letam(i) = i for i < edgeElems, i - edgeElems from edgeElems on
LetamInit(i, edgeElems) == IF i < edgeElems THEN i ELSE i - edgeElems
\* letap(numElem-edgeElems+i) = itself; letap(i-edgeElems) = i
LetapInit(i, edgeElems, numElem) ==
  IF i + edgeElems < numElem THEN i + edgeElems ELSE i
LzetamInit(i, edgeElems) ==
  IF i < edgeElems * edgeElems THEN i ELSE i - edgeElems * edgeElems
LzetapInit(i, edgeElems, numElem) ==
  IF i + edgeElems * edgeElems < numElem THEN i + edgeElems * edgeElems ELSE i

SetupElementConnectivities(d, edgeElems) ==
  LET numElem == d.numberOfElements
  IN  [d EXCEPT
         !.m_lxim = [i \in DOMAIN @ |-> LximInit(i)],
         !.m_lxip = [i \in DOMAIN @ |-> LxipInit(i, numElem)],
         !.m_letam = [i \in DOMAIN @ |-> LetamInit(i, edgeElems)],
         !.m_letap = [i \in DOMAIN @ |-> LetapInit(i, edgeElems, numElem)],
         !.m_lzetam = [i \in DOMAIN @ |-> LzetamInit(i, edgeElems)],
         !.m_lzetap = [i \in DOMAIN @ |-> LzetapInit(i, edgeElems, numElem)]]

(***************************************************************************)
(* Domain::SetupBoundaryConditions.                                        *)
(***************************************************************************)
\* GhostIdx with pidx started at 0 instead of numElem
GhostIdxFromZero(d) ==
  LET p0 == 0
      p1 == IF d.m_planeMin # 0 THEN p0 + d.m_sizeX * d.m_sizeY ELSE p0
      p2 == IF d.m_planeMax # 0 THEN p1 + d.m_sizeX * d.m_sizeY ELSE p1
      p3 == IF d.m_rowMin # 0 THEN p2 + d.m_sizeX * d.m_sizeZ ELSE p2
      p4 == IF d.m_rowMax # 0 THEN p3 + d.m_sizeX * d.m_sizeZ ELSE p3
      p5 == IF d.m_colMin # 0 THEN p4 + d.m_sizeY * d.m_sizeZ ELSE p4
  IN  [k \in 0..5 |->
         CASE k = 0 -> IF d.m_planeMin # 0 THEN p0 ELSE INT_MIN
           [] k = 1 -> IF d.m_planeMax # 0 THEN p1 ELSE INT_MIN
           [] k = 2 -> IF d.m_rowMin # 0 THEN p2 ELSE INT_MIN
           [] k = 3 -> IF d.m_rowMax # 0 THEN p3 ELSE INT_MIN
           [] k = 4 -> IF d.m_colMin # 0 THEN p4 ELSE INT_MIN
           [] k = 5 -> IF d.m_colMax # 0 THEN p5 ELSE INT_MIN]

\* GhostIdx with pidx left at numElem after every face
GhostIdxNotAdvanced(d) ==
  LET p0 == d.numberOfElements
  IN  [k \in 0..5 |->
         CASE k = 0 -> IF d.m_planeMin # 0 THEN p0 ELSE INT_MIN
           [] k = 1 -> IF d.m_planeMax # 0 THEN p0 ELSE INT_MIN
           [] k = 2 -> IF d.m_rowMin # 0 THEN p0 ELSE INT_MIN
           [] k = 3 -> IF d.m_rowMax # 0 THEN p0 ELSE INT_MIN
           [] k = 4 -> IF d.m_colMin # 0 THEN p0 ELSE INT_MIN
           [] k = 5 -> IF d.m_colMax # 0 THEN p0 ELSE INT_MIN]

\* ghostIdx[0..5]: INT_MIN, or the start of the face's block of ghost slots
GhostIdx(d) ==
  LET n == d.numberOfElements
      p0 == n
      p1 == IF d.m_planeMin # 0 THEN p0 + d.m_sizeX * d.m_sizeY ELSE p0
      p2 == IF d.m_planeMax # 0 THEN p1 + d.m_sizeX * d.m_sizeY ELSE p1
      p3 == IF d.m_rowMin # 0 THEN p2 + d.m_sizeX * d.m_sizeZ ELSE p2
      p4 == IF d.m_rowMax # 0 THEN p3 + d.m_sizeX * d.m_sizeZ ELSE p3
      p5 == IF d.m_colMin # 0 THEN p4 + d.m_sizeY * d.m_sizeZ ELSE p4
  IN  [k \in 0..5 |->
         CASE k = 0 -> IF d.m_planeMin # 0 THEN p0 ELSE INT_MIN
           [] k = 1 -> IF d.m_planeMax # 0 THEN p1 ELSE INT_MIN
           [] k = 2 -> IF d.m_rowMin # 0 THEN p2 ELSE INT_MIN
           [] k = 3 -> IF d.m_rowMax # 0 THEN p3 ELSE INT_MIN
           [] k = 4 -> IF d.m_colMin # 0 THEN p4 ELSE INT_MIN
           [] k = 5 -> IF d.m_colMax # 0 THEN p5 ELSE INT_MIN]

\* FaceBC with the two branches exchanged
FaceBCExchanged(d, atGlobalFace, elem, bcBit, commBit, nbr, ghost) ==
  IF ~atGlobalFace
  THEN [d EXCEPT !.m_elemBC[elem] = BitOr(@, bcBit)]
  ELSE [d EXCEPT !.m_elemBC[elem] = BitOr(@, commBit), ![nbr][elem] = ghost]

\* one face of one (i, j) iteration: when the subdomain is at the global
\* cube's face (atGlobalFace) the element gets the boundary bit bcBit,
\* otherwise the COMM bit and its neighbour becomes a ghost slot
FaceBC(d, atGlobalFace, elem, bcBit, commBit, nbr, ghost) ==
  IF atGlobalFace
  THEN [d EXCEPT !.m_elemBC[elem] = BitOr(@, bcBit)]
  ELSE [d EXCEPT !.m_elemBC[elem] = BitOr(@, commBit), ![nbr][elem] = ghost]

\* the body of the (i, j) loop, lines 1263-1316
BCIteration(d, i, j, edgeElems, ghostIdx) ==
  LET planeInc == i * edgeElems * edgeElems
      rowInc == i * edgeElems
      n == d.numberOfElements
      top == d.m_tp - 1
      d1 == FaceBC(d, d.m_planeLoc = 0, rowInc + j,
                   ZETA_M_SYMM, ZETA_M_COMM, "m_lzetam", ghostIdx[0] + rowInc + j)
      d2 == FaceBC(d1, d.m_planeLoc = top, rowInc + j + n - edgeElems * edgeElems,
                   ZETA_P_FREE, ZETA_P_COMM, "m_lzetap", ghostIdx[1] + rowInc + j)
      d3 == FaceBC(d2, d.m_rowLoc = 0, planeInc + j,
                   ETA_M_SYMM, ETA_M_COMM, "m_letam", ghostIdx[2] + rowInc + j)
      d4 == FaceBC(d3, d.m_rowLoc = top,
                   planeInc + j + edgeElems * edgeElems - edgeElems,
                   ETA_P_FREE, ETA_P_COMM, "m_letap", ghostIdx[3] + rowInc + j)
      d5 == FaceBC(d4, d.m_colLoc = 0, planeInc + j * edgeElems,
                   XI_M_SYMM, XI_M_COMM, "m_lxim", ghostIdx[4] + rowInc + j)
      d6 == FaceBC(d5, d.m_colLoc = top, planeInc + j * edgeElems + edgeElems - 1,
                   XI_P_FREE, XI_P_COMM, "m_lxip", ghostIdx[5] + rowInc + j)
  IN  d6

RECURSIVE BCLoop(_, _, _, _, _)
\* iterations k = i*edgeElems + j, lo <= k < hi, of the (i, j) loop, run
\* in order (the first half of the range, then the second)
BCLoop(d, lo, hi, edgeElems, ghostIdx) ==
  IF hi <= lo THEN d
  ELSE IF hi = lo + 1
  THEN BCIteration(d, lo \div edgeElems, lo % edgeElems, edgeElems, ghostIdx)
  ELSE LET mid == (lo + hi) \div 2
           \* h is the domain after the first half has run
       IN  CHOOSE r \in {BCLoop(h, mid, hi, edgeElems, ghostIdx) :
                         h \in {BCLoop(d, lo, mid, edgeElems, ghostIdx)}} : TRUE

SetupBoundaryConditions(d, edgeElems) ==
  BCLoop([d EXCEPT !.m_elemBC = [i \in DOMAIN @ |-> 0]], 0,
         edgeElems * edgeElems, edgeElems, GhostIdx(d))

(***************************************************************************)
(* CalcElemVolume (src/unnamed/part_000).                                  *)
(***************************************************************************)
\* the 24-argument overload, on the corner arrays x, y, z (indices 0..7)
CalcElemVolume24(x, y, z) ==
  LET twelveth == RDiv(ROne, R(12))
      dx70 == RSub(x[7], x[0])
      dy70 == RSub(y[7], y[0])
      dz70 == RSub(z[7], z[0])
      dx63 == RSub(x[6], x[3])
      dy63 == RSub(y[6], y[3])
      dz63 == RSub(z[6], z[3])
      dx20 == RSub(x[2], x[0])
      dy20 == RSub(y[2], y[0])
      dz20 == RSub(z[2], z[0])
      dx31 == RSub(x[3], x[1])
      dy31 == RSub(y[3], y[1])
      dz31 == RSub(z[3], z[1])
      dx72 == RSub(x[7], x[2])
      dy72 == RSub(y[7], y[2])
      dz72 == RSub(z[7], z[2])
      dx57 == RSub(x[5], x[7])
      dy57 == RSub(y[5], y[7])
      dz57 == RSub(z[5], z[7])
      volume ==
        RAdd(RAdd(
          RMul(RAdd(dx31, dx72),
               RSub(RMul(RAdd(dy63, dy20), RAdd(dz70, dz57)),
                    RMul(RAdd(dy70, dy57), RAdd(dz63, dz20)))),
          RMul(RAdd(dx63, dx20),
               RSub(RMul(RAdd(dy70, dy57), RAdd(dz31, dz72)),
                    RMul(RAdd(dy31, dy72), RAdd(dz70, dz57))))),
          RMul(RAdd(dx70, dx57),
               RSub(RMul(RAdd(dy31, dy72), RAdd(dz63, dz20)),
                    RMul(RAdd(dy63, dy20), RAdd(dz31, dz72)))))
  IN  RMul(volume, twelveth)

\* the array wrapper handing the y and z arrays over in exchanged places
CalcElemVolumeYZ(x, y, z) == CalcElemVolume24(x, z, y)

\* the array wrapper with "volume += twelveth" in place of "volume *= twelveth"
CalcElemVolumePlusTwelveth(x, y, z) ==
  RAdd(RMul(R(12), CalcElemVolume24(x, y, z)), Rat(1, 12))

\* the array wrapper handing the x and y arrays over in exchanged places
CalcElemVolumeXY(x, y, z) == CalcElemVolume24(y, x, z)

\* the array wrapper
CalcElemVolume(x, y, z) == CalcElemVolume24(x, y, z)

(***************************************************************************)
(* Constructor, lines 785-838: defaults, volumes and masses, energy.       *)
(***************************************************************************)
\* Index_t* nodelist(idx): the eight entries of element idx
nodelist(d, idx) == [k \in 0..7 |-> d.nodeConnectivityList[8 * idx + k]]

\* ScatterMass with the corner loop started one corner late
ScatterMassFromOne(nodalMass, elemToNode, volume) ==
  LET share == RDiv(volume, R(8))
  IN  [nodalMass EXCEPT ![elemToNode[1]] = RAdd(@, share),
                        ![elemToNode[2]] = RAdd(@, share),
                        ![elemToNode[3]] = RAdd(@, share),
                        ![elemToNode[4]] = RAdd(@, share),
                        ![elemToNode[5]] = RAdd(@, share),
                        ![elemToNode[6]] = RAdd(@, share),
                        ![elemToNode[7]] = RAdd(@, share)]

\* for (j=0; j<8; ++j) getNodalMass(elemToNode[j]) += volume / 8.0, the
\* eight updates applied one after the other
ScatterMass(nodalMass, elemToNode, volume) ==
  LET share == RDiv(volume, R(8))
  IN  [nodalMass EXCEPT ![elemToNode[0]] = RAdd(@, share),
                        ![elemToNode[1]] = RAdd(@, share),
                        ![elemToNode[2]] = RAdd(@, share),
                        ![elemToNode[3]] = RAdd(@, share),
                        ![elemToNode[4]] = RAdd(@, share),
                        ![elemToNode[5]] = RAdd(@, share),
                        ![elemToNode[6]] = RAdd(@, share),
                        ![elemToNode[7]] = RAdd(@, share)]

\* FieldDataIteration without the statement elemMass(i) = volume
FieldDataIterationNoElemMass(d, i) ==
  LET elemToNode == nodelist(d, i)
      x_local == [l \in 0..7 |-> d.nodalCoordinateX[elemToNode[l]]]
      y_local == [l \in 0..7 |-> d.nodalCoordinateY[elemToNode[l]]]
      z_local == [l \in 0..7 |-> d.nodalCoordinateZ[elemToNode[l]]]
      volume == CalcElemVolume(x_local, y_local, z_local)
  IN  [d EXCEPT !.referenceVolume[i] = volume,
                !.nodalMass = ScatterMass(@, elemToNode, volume)]

\* one iteration of the "initialize field data" loop
FieldDataIteration(d, i) ==
  LET elemToNode == nodelist(d, i)
      x_local == [l \in 0..7 |-> d.nodalCoordinateX[elemToNode[l]]]
      y_local == [l \in 0..7 |-> d.nodalCoordinateY[elemToNode[l]]]
      z_local == [l \in 0..7 |-> d.nodalCoordinateZ[elemToNode[l]]]
      volume == CalcElemVolume(x_local, y_local, z_local)
  IN  [d EXCEPT !.referenceVolume[i] = volume,
                !.m_elemMass[i] = volume,
                !.nodalMass = ScatterMass(@, elemToNode, volume)]

RECURSIVE FieldDataLoop(_, _, _)
\* iterations lo <= i < hi of the loop, run in order (the first half of
\* the range, then the second)
FieldDataLoop(d, lo, hi) ==
  IF hi <= lo THEN d
  ELSE IF hi = lo + 1 THEN FieldDataIteration(d, lo)
  ELSE LET mid == (lo + hi) \div 2
           \* h is the domain after the first half has run
       IN  CHOOSE r \in {FieldDataLoop(h, mid, hi) :
                         h \in {FieldDataLoop(d, lo, mid)}} : TRUE

\* ebase = 3.948746e+7
Ebase == 39487460

\* einit = ebase*scale*scale*scale, scale = (nx*m_tp)/45.0
Einit(d, nx) ==
  LET scale == RDiv(R(nx * d.m_tp), R(45))
  IN  RMul(RMul(RMul(R(Ebase), scale), scale), scale)

\* the element that receives einit
DepositElem == 0

\* DepositEnergy without the test of the subdomain location
DepositEnergyEverywhere(d, nx) ==
  [d EXCEPT !.energy[DepositElem] = Einit(d, nx)]

DepositEnergy(d, nx) ==
  IF d.m_rowLoc + d.m_colLoc + d.m_planeLoc = 0
  THEN [d EXCEPT !.energy[DepositElem] = Einit(d, nx)]
  ELSE d

(***************************************************************************)
(* The constructor up to the call of CreateRegionIndexSets (lines 701-764) *)
(* and after it (lines 776-838).                                           *)
(***************************************************************************)
ConstructUpToRegions(a, junk) ==
  LET edgeElems == a.nx
      edgeNodes == edgeElems + 1
      s == ScalarMembers(a, junk)
      d0 == s @@ AllocateElemPersistent(s.numberOfElements)
              @@ AllocateNodePersistent(s.numberOfNodes)
      d1 == SetupCommBuffers(d0, edgeNodes) @@ d0
      d2 == BasicFieldInit(d1)
  IN  BuildMesh(d2, a.nx, edgeNodes, edgeElems)

\* the time-step defaults of lines 792-802 (deltaTime, set at line 838 from
\* cbrt and sqrt, is InitialDeltaTime below)
TimeDefaults ==
  [fixedTimeIncrement |-> Rat(-1, 1000000),
   stopTime |-> Rat(1, 100),
   m_deltatimemultlb |-> Rat(11, 10),
   m_deltatimemultub |-> Rat(12, 10),
   maxAllowableTimeIncrement |-> Rat(1, 100),
   currentTime |-> RZero,
   iterationCount |-> 0]

ConstructAfterRegions(d, a) ==
  LET edgeElems == a.nx
      edgeNodes == edgeElems + 1
      d1 == SetupSymmetryPlanes(d, edgeNodes)
      d2 == SetupElementConnectivities(d1, edgeElems)
      d3 == SetupBoundaryConditions(d2, edgeElems)
      \* d4 and d5 are the domain before and after the field data loop
  IN  CHOOSE r \in {DepositEnergy(d5, a.nx) :
                    d5 \in {FieldDataLoop(d4, 0, d4.numberOfElements) :
                            d4 \in {TimeDefaults @@ d3}}} : TRUE

(***************************************************************************)
(* Domain::CreateRegionIndexSets.  rand() is an input: every draw may      *)
(* return any value.                                                       *)
(***************************************************************************)
\* the region members and the locals of CreateRegionIndexSets before the
\* call; regNumList entries are written before they are read, 0 stands for
\* an entry not written yet
NoRegions ==
  [numberOfRegions |-> 0, regElemSize |-> <<>>, regNumList |-> <<>>,
   regElemlist |-> <<>>, nextIndex |-> 0, lastReg |-> -1, regionNum |-> 0,
   regBinEnd |-> <<>>, costDenominator |-> 0]

\* costDenominator += pow((i+1), balance): the sum is formed in double and
\* truncated back to Int_t
AddPow(costDenominator, base, balance) ==
  IF balance >= 0 THEN costDenominator + IPow(base, balance)
  ELSE IF base = 1 THEN costDenominator + 1
  ELSE costDenominator

RECURSIVE RegBinEndUpTo(_, _)
\* regBinEnd[i], the running costDenominator after iteration i
RegBinEndUpTo(i, balance) ==
  AddPow(IF i = 0 THEN 0 ELSE RegBinEndUpTo(i - 1, balance), i + 1, balance)

\* lines 1057-1086
EnterRegionsResult(numElem, nr, balance) ==
  IF nr = 1
  THEN [NoRegions EXCEPT
          !.numberOfRegions = nr,
          !.regNumList = [i \in ElemIdx(numElem) |-> 1],
          !.nextIndex = numElem,
          !.regElemSize = [r \in 0..(nr - 1) |-> 0],
          !.regElemlist = [r \in 0..(nr - 1) |-> <<>>]]
  ELSE [NoRegions EXCEPT
          !.numberOfRegions = nr,
          !.regNumList = [i \in ElemIdx(numElem) |-> 0],
          !.regElemSize = [r \in 0..(nr - 1) |-> 0],
          !.regElemlist = [r \in 0..(nr - 1) |-> <<>>],
          !.regBinEnd = [r \in 0..(nr - 1) |-> RegBinEndUpTo(r, balance)],
          !.costDenominator = RegBinEndUpTo(nr - 1, balance)]

RECURSIVE BinOf(_, _, _)
\* i = 0; while (regionVar >= regBinEnd[i]) i++;
BinOf(regionVar, regBinEnd, i) ==
  IF regionVar >= regBinEnd[i] THEN BinOf(regionVar, regBinEnd, i + 1) ELSE i

\* regionNum = ((i + myRank) % numReg) + 1
RegionNumOf(i, myRank, nr) == ((i + myRank) % nr) + 1

\* the ranges "elements" is drawn from, lines 1106-1126
ChunkRanges ==
  { <<1, 15>>, <<16, 31>>, <<32, 63>>, <<64, 127>>, <<128, 255>>,
    <<256, 511>>, <<512, 2048>> }

ChunkLengths ==
  { e \in 1..MaxChunk : \E rg \in ChunkRanges : rg[1] <= e /\ e <= rg[2] }

\* lines 1127-1133: store regionNum into [nextIndex, runto) below numElem
FillFrom(rg, numElem, elements) ==
  LET runto == elements + rg.nextIndex
      stop == IF runto < numElem THEN runto ELSE numElem
  IN  [rg EXCEPT
         !.regNumList = [i \in DOMAIN @ |->
                           IF rg.nextIndex <= i /\ i < stop
                           THEN rg.regionNum ELSE @[i]],
         !.nextIndex = stop,
         !.lastReg = rg.regionNum]

\* first loop of the conversion, iterations lo <= i < hi:
\* regElemSize(regNumList(i)-1)++ runs once for every i of region r+1
CountLoop(sizes, regNumList, lo, hi) ==
  [r \in DOMAIN sizes |->
     sizes[r] + Cardinality({i \in lo..(hi - 1) : regNumList[i] - 1 = r})]

\* regndx of iteration i of the third loop (started at lo with the sizes
\* st.regElemSize): the value regElemSize(r)++ yields, after one increment
\* for every earlier iteration of the same region
Regndx(st, regNumList, lo, i) ==
  st.regElemSize[regNumList[i] - 1]
    + Cardinality({j \in lo..(i - 1) : regNumList[j] = regNumList[i]})

\* third loop, iterations lo <= i < hi: regElemlist(r, regndx) = i, a later
\* store to the same slot replacing an earlier one
FillLoop(st, regNumList, lo, hi) ==
  LET stored(r, k) ==
        {i \in lo..(hi - 1) :
           regNumList[i] - 1 = r /\ Regndx(st, regNumList, lo, i) + 1 = k}
      last(S) == CHOOSE i \in S : \A j \in S : j <= i
  IN  [regElemSize |-> CountLoop(st.regElemSize, regNumList, lo, hi),
       regElemlist |->
         [r \in DOMAIN st.regElemlist |->
            [k \in DOMAIN st.regElemlist[r] |->
               IF stored(r, k) # {} THEN last(stored(r, k))
               ELSE st.regElemlist[r][k]]]]

\* ConvertRegionsResult without the reset of regElemSize(i) at line 1145:
\* the third loop goes on counting from the sizes of the first
ConvertRegionsNoReset(rg, numElem) ==
  LET counted == CountLoop(rg.regElemSize, rg.regNumList, 0, numElem)
      alloc == [r \in DOMAIN counted |-> [k \in 1..(2 * counted[r]) |-> -1]]
      filled == FillLoop([regElemSize |-> counted, regElemlist |-> alloc],
                         rg.regNumList, 0, numElem)
  IN  [rg EXCEPT !.regElemSize = filled.regElemSize,
                 !.regElemlist = filled.regElemlist]

\* lines 1138-1155; regionIndexset[r] is allocated with regElemSize(r)
\* entries (kept here as a 1-based sequence, entry k+1 for regElemlist(r,k))
ConvertRegionsResult(rg, numElem) ==
  LET counted == CountLoop(rg.regElemSize, rg.regNumList, 0, numElem)
      alloc == [r \in DOMAIN counted |-> [k \in 1..counted[r] |-> -1]]
      zeroed == [r \in DOMAIN counted |-> 0]
      filled == FillLoop([regElemSize |-> zeroed, regElemlist |-> alloc],
                         rg.regNumList, 0, numElem)
  IN  [rg EXCEPT !.regElemSize = filled.regElemSize,
                 !.regElemlist = filled.regElemlist]

(***************************************************************************)
(* InitMeshDecomp.                                                         *)
(***************************************************************************)
RECURSIVE RoundedCbrtFrom(_, _)
\* the largest t >= from with (2t-1)^3 <= 8*n, i.e. floor(cbrt(n) + 0.5)
RoundedCbrtFrom(n, from) ==
  IF IPow(2 * from + 1, 3) <= 8 * n THEN RoundedCbrtFrom(n, from + 1) ELSE from

\* testProcs = Int_t(cbrt(Real_t(numRanks)) + 0.5): the conversion to Int_t
\* truncates toward zero
TestProcs(numRanks) ==
  IF numRanks >= 0 THEN RoundedCbrtFrom(numRanks, 0)
  ELSE LET up == RoundedCbrtFrom(-numRanks, 0)
       \* cbrt(numRanks) + 0.5 = -(c - 0.5), c = cbrt(-numRanks) >= 1;
       \* floor(c - 0.5) = floor(c + 0.5) - 1
       IN  -(up - 1)

\* the three configuration tests of lines 1331-1354, in order; "" when
\* none fails
ConfigError(numRanks, testProcs) ==
  IF testProcs * testProcs * testProcs # numRanks
  THEN "Num processors must be a cube of an integer (1, 8, 27, ...)"
  ELSE IF SizeofReal # 4 /\ SizeofReal # 8
  THEN "MPI operations only support float and double right now..."
  ELSE IF MAX_FIELDS_PER_MPI_COMM > CACHE_COHERENCE_PAD_REAL
  THEN "corner element comm buffers too small.  Fix code."
  ELSE ""

\* MyDom with the first branch taken for every rank
MyDomFirstBranch(numRanks, myRank, dx, dy, dz) ==
  myRank * (1 + ((dx * dy * dz) \div numRanks))

\* myDom, lines 1369-1376 (numRanks # 0)
MyDom(numRanks, myRank, dx, dy, dz) ==
  LET remainder == (dx * dy * dz) % numRanks
  IN  IF myRank < remainder
      THEN myRank * (1 + ((dx * dy * dz) \div numRanks))
      ELSE remainder * (1 + ((dx * dy * dz) \div numRanks))
             + (myRank - remainder) * ((dx * dy * dz) \div numRanks)

\* the call record before InitMeshDecomp runs: nothing printed, none of
\* *col, *row, *plane, *side written
DecompCall(numRanks, myRank) ==
  [numRanks |-> numRanks, myRank |-> myRank, status |-> "ready",
   message |-> "", exitCode |-> 0, written |-> {},
   col |-> 0, row |-> 0, plane |-> 0, side |-> 0]

\* exit(-1): the status the parent sees is -1 & 0377
ExitStatus(code) == code % 256

\* the outcomes of InitMeshDecomp on call record c.  With numRanks = 0 the
\* cube test passes (0*0*0 == 0) and dx*dy*dz % numRanks divides by zero:
\* undefined behaviour, which either kills the process by a signal (nothing
\* printed) or lets it go on with indeterminate values
InitMeshDecompOutcomes(c) ==
  LET testProcs == TestProcs(c.numRanks)
      err == ConfigError(c.numRanks, testProcs)
      dx == testProcs
      dy == testProcs
      dz == testProcs
  IN  IF err # ""
      THEN {[c EXCEPT !.status = "exited", !.message = err,
                      !.exitCode = ExitStatus(-1)]}
      ELSE IF dx * dy * dz # c.numRanks
      THEN {[c EXCEPT !.status = "exited",
                      !.message = "error -- must have as many domains as procs",
                      !.exitCode = ExitStatus(-1)]}
      ELSE IF c.numRanks = 0
      THEN {[c EXCEPT !.status = "killed"]}
           \cup {[c EXCEPT !.status = "returned",
                           !.written = {"col", "row", "plane", "side"},
                           !.col = v, !.row = v, !.plane = v,
                           !.side = testProcs] : v \in {-1, 0}}
      ELSE LET myDom == MyDom(c.numRanks, c.myRank, dx, dy, dz)
           IN  {[c EXCEPT !.status = "returned",
                           !.written = {"col", "row", "plane", "side"},
                           !.col = myDom % dx,
                           !.row = (myDom \div dx) % dy,
                           !.plane = myDom \div (dx * dy),
                           !.side = testProcs]}

(***************************************************************************)
(* Inputs.                                                                 *)
(***************************************************************************)
\* values an uninitialised Index_t member may hold
IndeterminateIndex == {-1, 16}

NoArgs == [nx |-> 0]
NoDomain == [numberOfElements |-> 0]
NoDecomp == DecompCall(1, 0)
NoHex == [called |-> FALSE]
\* no block allocated, the pointer variable NULL
NULL == 0
NoMem == [ptr |-> NULL]
\* the pseudo-random generator before any use
NoPrng == [state |-> 1]

\* the arguments of the Domain constructor, and the rank MPI_Comm_rank
\* reports inside CreateRegionIndexSets (0 without MPI).  The region loop
\* has up to nr^numElem outcomes: with more than one region the whole
\* constructor is run on meshes of at most MaxMultiRegionElems elements, and
\* SpecRegions runs CreateRegionIndexSets alone on larger element counts.
DomainArgs ==
  { a \in [numRanks : {IPow(t, 3) : t \in 1..MaxTp},
           colLoc : 0..(MaxTp - 1), rowLoc : 0..(MaxTp - 1),
           planeLoc : 0..(MaxTp - 1),
           nx : 1..MaxNx, tp : 1..MaxTp, nr : 1..MaxNr,
           balance : -1..MaxBalance, cost : 1..MaxCost,
           myRank : 0..MaxRank] :
      \* main passes the side and the rank count of InitMeshDecomp
      /\ a.numRanks = IPow(a.tp, 3)
      /\ a.colLoc < a.tp /\ a.rowLoc < a.tp /\ a.planeLoc < a.tp
      /\ (a.nr = 1 \/ a.nx * a.nx * a.nx <= MaxMultiRegionElems)
      \* the single-region branch (lines 1064-1070) reads neither balance
      \* nor myRank
      /\ (a.nr = 1 => (a.balance = 0 /\ a.myRank = 0)) }

\* CreateRegionIndexSets entered on a Domain of numElem elements
RegionArgs ==
  [nx : {0}, nr : 1..MaxNr, balance : -1..MaxBalance, myRank : 0..MaxRank]

(***************************************************************************)
(* Actions of the Domain constructor.                                      *)
(***************************************************************************)
\* lines 701-764
DomainBegin ==
  /\ pc = "new"
  /\ \E junk \in IndeterminateIndex : dom' = ConstructUpToRegions(args, junk)
  /\ pc' = "regions_entry"
  /\ UNCHANGED <<args, reg, imd, hex, mem, prng>>

\* CreateRegionIndexSets up to the first draw
EnterRegions ==
  /\ pc = "regions_entry"
  /\ reg' = EnterRegionsResult(dom.numberOfElements, args.nr, args.balance)
  /\ pc' = IF reg'.nextIndex < dom.numberOfElements
           THEN "regions_pick" ELSE "regions_convert"
  /\ UNCHANGED <<args, dom, imd, hex, mem, prng>>

\* PickRegion without the re-draw loop of lines 1098-1104
PickRegionNoRedraw ==
  /\ pc = "regions_pick"
  /\ \E regionVar \in 0..(reg.costDenominator - 1) :
       LET i == BinOf(regionVar, reg.regBinEnd, 0)
           regionNum == RegionNumOf(i, args.myRank, reg.numberOfRegions)
       IN  /\ reg' = [reg EXCEPT !.regionNum = regionNum]
           /\ pc' = "regions_fill"
  /\ UNCHANGED <<args, dom, imd, hex, mem, prng>>

\* one draw of the region: lines 1090-1096 and every pass of the re-draw
\* loop of lines 1098-1104, which is left once the region differs from
\* the last one
PickRegion ==
  /\ pc = "regions_pick"
  /\ \E regionVar \in 0..(reg.costDenominator - 1) :
       LET i == BinOf(regionVar, reg.regBinEnd, 0)
           regionNum == RegionNumOf(i, args.myRank, reg.numberOfRegions)
       IN  /\ reg' = [reg EXCEPT !.regionNum = regionNum]
           /\ pc' = IF regionNum = reg.lastReg
                    THEN "regions_pick" ELSE "regions_fill"
  /\ UNCHANGED <<args, dom, imd, hex, mem, prng>>

\* lines 1105-1133: draw the chunk length and store the region number
FillChunk ==
  /\ pc = "regions_fill"
  /\ \E elements \in ChunkLengths :
       reg' = FillFrom(reg, dom.numberOfElements, elements)
  /\ pc' = IF reg'.nextIndex < dom.numberOfElements
           THEN "regions_pick" ELSE "regions_convert"
  /\ UNCHANGED <<args, dom, imd, hex, mem, prng>>

\* lines 1138-1155, and the return of CreateRegionIndexSets
ConvertRegions ==
  /\ pc = "regions_convert"
  /\ reg' = ConvertRegionsResult(reg, dom.numberOfElements)
  /\ pc' = "regions_done"
  /\ UNCHANGED <<args, dom, imd, hex, mem, prng>>

\* lines 776-838, and the return of the constructor
DomainFinish ==
  /\ pc = "regions_done"
  /\ args.nx > 0
  /\ dom' = ConstructAfterRegions(dom, args)
  /\ pc' = "constructed"
  /\ UNCHANGED <<args, reg, imd, hex, mem, prng>>

(***************************************************************************)
(* InitMeshDecomp and CalcElemVolume, each called on its own.              *)
(***************************************************************************)
InitMeshDecomp ==
  /\ pc = "decomp"
  /\ imd.status = "ready"
  /\ imd' \in InitMeshDecompOutcomes(imd)
  /\ UNCHANGED <<pc, args, dom, reg, hex, mem, prng>>

\* corner arrays of the axis-aligned box with corner 0 at the origin and
\* signed extents a, b, c, in the canonical corner order
BoxX(a) == [k \in 0..7 |-> IF k \in {1, 2, 5, 6} THEN R(a) ELSE RZero]
BoxY(b) == [k \in 0..7 |-> IF k \in {2, 3, 6, 7} THEN R(b) ELSE RZero]
BoxZ(c) == [k \in 0..7 |-> IF k \in {4, 5, 6, 7} THEN R(c) ELSE RZero]

\* the hexahedra CalcElemVolume is called on: every box with extents in
\* -1..MaxExtent, with at most one coordinate of one corner moved by a
\* multiple of 1/2 up to MaxShift halves
Shifts == {0} \cup {s \in -MaxShift..MaxShift : s # 0}
Hexahedra ==
  { [x |-> [BoxX(a) EXCEPT ![k] = IF ax = 1 THEN RAdd(@, Rat(s, 2)) ELSE @],
     y |-> [BoxY(b) EXCEPT ![k] = IF ax = 2 THEN RAdd(@, Rat(s, 2)) ELSE @],
     z |-> [BoxZ(c) EXCEPT ![k] = IF ax = 3 THEN RAdd(@, Rat(s, 2)) ELSE @],
     called |-> FALSE, volume |-> RZero] :
      a \in -1..MaxExtent, b \in -1..MaxExtent, c \in -1..MaxExtent,
      k \in 0..7, ax \in 1..3, s \in Shifts }

CallCalcElemVolume ==
  /\ pc = "volume"
  /\ ~hex.called
  /\ hex' = [hex EXCEPT !.called = TRUE,
                        !.volume = CalcElemVolume(hex.x, hex.y, hex.z)]
  /\ UNCHANGED <<pc, args, dom, reg, imd, mem, prng>>

(***************************************************************************)
(* Specifications.                                                         *)
(***************************************************************************)
\* the Domain constructor
Init ==
  /\ pc = "new"
  /\ args \in DomainArgs
  /\ dom = NoDomain
  /\ reg = NoRegions
  /\ imd = NoDecomp
  /\ hex = NoHex
  /\ mem = NoMem
  /\ prng = NoPrng

Next ==
  \/ DomainBegin
  \/ EnterRegions
  \/ PickRegion
  \/ FillChunk
  \/ ConvertRegions
  \/ DomainFinish

Spec == Init /\ [][Next]_vars

\* CreateRegionIndexSets alone
InitRegions ==
  /\ pc = "regions_entry"
  /\ args \in RegionArgs
  /\ dom \in [numberOfElements : 1..MaxElems]
  /\ reg = NoRegions
  /\ imd = NoDecomp
  /\ hex = NoHex
  /\ mem = NoMem
  /\ prng = NoPrng

NextRegions ==
  \/ EnterRegions
  \/ PickRegion
  \/ FillChunk
  \/ ConvertRegions

SpecRegions == InitRegions /\ [][NextRegions]_vars

\* CreateRegionIndexSets with every statement eventually executed and with
\* rand() fair: a draw that leaves the re-draw loop is taken if it stays
\* possible
SpecRegionsFair ==
  /\ SpecRegions
  /\ WF_vars(EnterRegions)
  /\ WF_vars(FillChunk)
  /\ WF_vars(ConvertRegions)
  /\ SF_vars(PickRegion /\ pc' = "regions_fill")

\* InitMeshDecomp alone: rank counts -9..MaxNumRanks, every rank of a
\* valid count and ranks 0 and 1 of the others
InitDecomp ==
  /\ pc = "decomp"
  /\ mem = NoMem
  /\ prng = NoPrng
  /\ \E numRanks \in -9..MaxNumRanks :
       \E myRank \in 0..(IF numRanks > 2 THEN numRanks - 1 ELSE 1) :
         /\ (myRank > 1 => IPow(TestProcs(numRanks), 3) = numRanks)
         /\ imd = DecompCall(numRanks, myRank)
  /\ args = NoArgs
  /\ dom = NoDomain
  /\ reg = NoRegions
  /\ hex = NoHex

SpecDecomp == InitDecomp /\ [][InitMeshDecomp]_vars

\* CalcElemVolume alone
InitVolume ==
  /\ pc = "volume"
  /\ hex \in Hexahedra
  /\ args = NoArgs
  /\ dom = NoDomain
  /\ reg = NoRegions
  /\ imd = NoDecomp
  /\ mem = NoMem
  /\ prng = NoPrng

SpecVolume == InitVolume /\ [][CallCalcElemVolume]_vars

(***************************************************************************)
(* Domain::SetupThreadSupportStructures (lines 917-983), called by the     *)
(* constructor right after BuildMesh in a build with _OPENMP.              *)
(***************************************************************************)
\* omp_get_max_threads() returns a value in 1..MaxThreads
MaxThreads == 2

\* nodeElemCount after the counting loops of lines 928-937
NodeElemCount(d) ==
  [n \in NodeIdx(d.numberOfNodes) |->
     Cardinality({k \in 0..(8 * d.numberOfElements - 1) :
                    d.nodeConnectivityList[k] = n})]

RECURSIVE ISumRange(_, _, _)
\* f[lo] + ... + f[hi-1], summed by halves
ISumRange(f, lo, hi) ==
  IF hi <= lo THEN 0
  ELSE IF hi = lo + 1 THEN f[lo]
  ELSE LET mid == (lo + hi) \div 2
       IN  ISumRange(f, lo, mid) + ISumRange(f, mid, hi)

\* m_nodeElemStart[0] = 0, m_nodeElemStart[i] = m_nodeElemStart[i-1] +
\* nodeElemCount[i-1] (lines 941-948)
NodeElemStart(d, count) ==
  [i \in 0..d.numberOfNodes |-> ISumRange(count, 0, i)]

\* CornerStep without ++(nodeElemCount[m])
CornerStepNoCount(st, d, k) ==
  LET m == d.nodeConnectivityList[k]
      offset == st.m_nodeElemStart[m] + st.nodeElemCount[m]
  IN  [st EXCEPT !.m_nodeElemCornerList[offset] = k]

\* the body of the inner loop of lines 956-964 for corner k = i*8 + j
CornerStep(st, d, k) ==
  LET m == d.nodeConnectivityList[k]
      offset == st.m_nodeElemStart[m] + st.nodeElemCount[m]
  IN  [st EXCEPT !.m_nodeElemCornerList[offset] = k,
                 !.nodeElemCount[m] = @ + 1]

RECURSIVE CornerLoop(_, _, _, _)
\* corners lo <= k < hi of the loops of lines 956-964, in order (the first
\* half of the range, then the second)
CornerLoop(st, d, lo, hi) ==
  IF hi <= lo THEN st
  ELSE IF hi = lo + 1 THEN CornerStep(st, d, lo)
  ELSE LET mid == (lo + hi) \div 2
           \* h is the state after the first half has run
       IN  CHOOSE r \in {CornerLoop(h, d, mid, hi) :
                         h \in {CornerLoop(st, d, lo, mid)}} : TRUE

\* the check of lines 967-978: some entry of the corner list is negative
\* or greater than numElem*8
CornerListOutOfRange(d, list) ==
  \E i \in DOMAIN list : list[i] < 0 \/ list[i] > d.numberOfElements * 8

\* the members after SetupThreadSupportStructures; the constructor's
\* initialiser list sets both pointers to 0 (the empty array), new
\* Index_t[n] leaves the entries indeterminate (junk), exited tells
\* whether exit(-1) was called
SetupThreadSupportStructures(d, numthreads, junk) ==
  IF numthreads > 1
  THEN LET start == NodeElemStart(d, NodeElemCount(d))
           clSize == start[d.numberOfNodes]
           st == CornerLoop([m_nodeElemStart |-> start,
                             m_nodeElemCornerList |-> [o \in 0..(clSize - 1) |-> junk],
                             nodeElemCount |-> [n \in NodeIdx(d.numberOfNodes) |-> 0]],
                            d, 0, 8 * d.numberOfElements)
       IN  [m_nodeElemStart |-> st.m_nodeElemStart,
            m_nodeElemCornerList |-> st.m_nodeElemCornerList,
            exited |-> CornerListOutOfRange(d, st.m_nodeElemCornerList)] @@ d
  ELSE [m_nodeElemStart |-> <<>>, m_nodeElemCornerList |-> <<>>,
        exited |-> FALSE] @@ d

\* Index_t nodeElemCount(idx)
nodeElemCount(d, idx) == d.m_nodeElemStart[idx + 1] - d.m_nodeElemStart[idx]

\* Index_t *nodeElemCornerList(idx): the nodeElemCount(idx) entries
\* starting at m_nodeElemStart[idx]
nodeElemCornerList(d, idx) ==
  [t \in 0..(nodeElemCount(d, idx) - 1) |->
     d.m_nodeElemCornerList[d.m_nodeElemStart[idx] + t]]

\* the constructor arguments together with omp_get_max_threads(); the
\* corner lists are built from the connectivity alone, which cost does not
\* enter
ThreadArgs ==
  { a @@ [numthreads |-> t] :
      a \in {b \in DomainArgs : b.nr = 1 /\ b.cost = 1},
      t \in 1..MaxThreads }

\* the constructor of the _OPENMP build up to the call (lines 701-764)
DomainBeginOpenMP ==
  /\ pc = "new"
  /\ \E junk \in IndeterminateIndex : dom' = ConstructUpToRegions(args, junk)
  /\ pc' = "threads"
  /\ UNCHANGED <<args, reg, imd, hex, mem, prng>>

CallSetupThreadSupportStructures ==
  /\ pc = "threads"
  /\ \E junk \in IndeterminateIndex :
       dom' = SetupThreadSupportStructures(dom, args.numthreads, junk)
  /\ pc' = IF dom'.exited THEN "exited" ELSE "threads_done"
  /\ UNCHANGED <<args, reg, imd, hex, mem, prng>>

InitThreads ==
  /\ pc = "new"
  /\ args \in ThreadArgs
  /\ dom = NoDomain
  /\ reg = NoRegions
  /\ imd = NoDecomp
  /\ hex = NoHex
  /\ mem = NoMem
  /\ prng = NoPrng

NextThreads ==
  \/ DomainBeginOpenMP
  \/ CallSetupThreadSupportStructures

SpecThreads == InitThreads /\ [][NextThreads]_vars

(***************************************************************************)
(* CreateRegionIndexSets with the draws taken from the C library's         *)
(* generator: srand sets its state, rand advances it and returns a value   *)
(* that depends on the state only.  The generator is one of a family of    *)
(* linear congruential generators.  The Domain is constructed twice.       *)
(***************************************************************************)
\* rand() returns values in 0..RandModulus-1; the state of the generator
\* before the first construction is in 0..MaxEarlierState
RandModulus == 1024
MaxEarlierState == 2

RandMultipliers == {5, 13}
RandIncrements == {1, 3}

\* srand without effect
SrandIgnored(g, seed) == g

\* srand(seed)
Srand(g, seed) == [g EXCEPT !.state = seed % RandModulus]

\* the generator after one call of rand(); the value returned is its state
RandNext(g) == [g EXCEPT !.state = (g.mult * g.state + g.inc) % RandModulus]

\* elements, from binSize and the next value of rand(), lines 1106-1126
ChunkElements(binSize, r) ==
  IF binSize < 773 THEN (r % 15) + 1
  ELSE IF binSize < 937 THEN (r % 16) + 16
  ELSE IF binSize < 970 THEN (r % 32) + 32
  ELSE IF binSize < 974 THEN (r % 64) + 64
  ELSE IF binSize < 978 THEN (r % 128) + 128
  ELSE IF binSize < 981 THEN (r % 256) + 256
  ELSE (r % 1537) + 512

Generators ==
  [state : 0..MaxEarlierState, mult : RandMultipliers, inc : RandIncrements,
   run : {1}, firstList : {<<>>}]

\* lines 1049-1086: srand(myRank) (srand(0) with myRank = 0 without MPI)
\* and the set-up of the region members
SeedAndEnterRegions ==
  /\ pc = "regions_entry"
  /\ prng' = Srand(prng, args.myRank)
  /\ reg' = EnterRegionsResult(dom.numberOfElements, args.nr, args.balance)
  /\ pc' = IF reg'.nextIndex < dom.numberOfElements
           THEN "seeded_pick" ELSE "regions_convert"
  /\ UNCHANGED <<args, dom, imd, hex, mem>>

\* one draw of the region (lines 1090-1096, and every pass of the re-draw
\* loop of lines 1098-1104)
PickRegionRand ==
  /\ pc = "seeded_pick"
  /\ prng' = RandNext(prng)
  /\ LET regionVar == prng'.state % reg.costDenominator
         i == BinOf(regionVar, reg.regBinEnd, 0)
         regionNum == RegionNumOf(i, args.myRank, reg.numberOfRegions)
     IN  /\ reg' = [reg EXCEPT !.regionNum = regionNum]
         /\ pc' = IF regionNum = reg.lastReg
                  THEN "seeded_pick" ELSE "seeded_fill"
  /\ UNCHANGED <<args, dom, imd, hex, mem>>

\* lines 1105-1133: binSize and elements from two calls of rand(), and the
\* store of the region number
FillChunkRand ==
  /\ pc = "seeded_fill"
  /\ prng' = RandNext(RandNext(prng))
  /\ LET binSize == RandNext(prng).state % 1000
         elements == ChunkElements(binSize, prng'.state)
     IN  reg' = FillFrom(reg, dom.numberOfElements, elements)
  /\ pc' = IF reg'.nextIndex < dom.numberOfElements
           THEN "seeded_pick" ELSE "regions_convert"
  /\ UNCHANGED <<args, dom, imd, hex, mem>>

\* a second Domain is constructed with the same arguments; the region ids
\* of the first are kept for comparison
ConstructAgain ==
  /\ pc = "regions_done"
  /\ prng.run = 1
  /\ prng' = [prng EXCEPT !.run = 2, !.firstList = reg.regNumList]
  /\ reg' = NoRegions
  /\ pc' = "regions_entry"
  /\ UNCHANGED <<args, dom, imd, hex, mem>>

InitSeeded ==
  /\ pc = "regions_entry"
  /\ args \in RegionArgs
  /\ dom \in [numberOfElements : 1..MaxElems]
  /\ reg = NoRegions
  /\ imd = NoDecomp
  /\ hex = NoHex
  /\ mem = NoMem
  /\ prng \in Generators

NextSeeded ==
  \/ SeedAndEnterRegions
  \/ PickRegionRand
  \/ FillChunkRand
  \/ ConvertRegions
  \/ ConstructAgain

SpecSeeded == InitSeeded /\ [][NextSeeded]_vars

(***************************************************************************)
(* Allocate and Release (lines 109-122) on pointer variables.  A block is  *)
(* one successful call of malloc; blocks are numbered in the order of the  *)
(* calls.                                                                  *)
(***************************************************************************)
\* number of blocks malloc hands out, and number of pointer variables
MaxBlocks == 3
MaxPointers == 2

Blocks == 1..MaxBlocks
Pointers == 1..MaxPointers

\* the memory before any call: every pointer variable NULL, no block
\* handed out; bytes[b] is the size malloc was asked for, frees[b] the
\* number of calls of free on block b, last and prev the last two calls
StartMem ==
  [ptr |-> [p \in Pointers |-> NULL],
   next |-> 1,
   bytes |-> [b \in Blocks |-> 0],
   frees |-> [b \in Blocks |-> 0],
   last |-> [op |-> "none", p |-> 0],
   prev |-> [op |-> "none", p |-> 0],
   ptrBefore |-> [p \in Pointers |-> NULL],
   freesBefore |-> [b \in Blocks |-> 0]]

\* the values malloc(bytes) may return: NULL (no memory; also allowed for
\* a request of 0 bytes) or the next block
MallocOutcomes(m) == {NULL} \cup (IF m.next \in Blocks THEN {m.next} ELSE {})

\* ptr = Allocate<Real_t>(size) with malloc returning r
Allocate(m, p, size, r) ==
  IF r = NULL
  THEN [m EXCEPT !.ptr[p] = NULL]
  ELSE [m EXCEPT !.ptr[p] = r,
                 !.next = @ + 1,
                 !.bytes[r] = SizeofReal * size]

\* Release without the statement *ptr = NULL
ReleaseNoReset(m, p) ==
  IF m.ptr[p] # NULL
  THEN [m EXCEPT !.frees[m.ptr[p]] = @ + 1]
  ELSE m

\* Release(&ptr)
Release(m, p) ==
  IF m.ptr[p] # NULL
  THEN [m EXCEPT !.frees[m.ptr[p]] = @ + 1,
                 !.ptr[p] = NULL]
  ELSE m

\* the call recorded as the last one
Called(m, after, op, p) ==
  [after EXCEPT !.last = [op |-> op, p |-> p],
                !.prev = m.last,
                !.ptrBefore = m.ptr,
                !.freesBefore = m.frees]

\* the sizes Allocate is called with
AllocSizes == {0, 10}

\* ptr = Allocate(size) on a pointer variable that holds no block
CallAllocate ==
  /\ pc = "memory"
  /\ \E p \in Pointers, size \in AllocSizes :
       /\ mem.ptr[p] = NULL
       /\ \E r \in MallocOutcomes(mem) :
            mem' = Called(mem, Allocate(mem, p, size, r), "Allocate", p)
  /\ UNCHANGED <<pc, args, dom, reg, imd, hex, prng>>

CallRelease ==
  /\ pc = "memory"
  /\ \E p \in Pointers :
       mem' = Called(mem, Release(mem, p), "Release", p)
  /\ UNCHANGED <<pc, args, dom, reg, imd, hex, prng>>

InitMemory ==
  /\ pc = "memory"
  /\ mem = StartMem
  /\ args = NoArgs
  /\ dom = NoDomain
  /\ reg = NoRegions
  /\ imd = NoDecomp
  /\ hex = NoHex
  /\ prng = NoPrng

NextMemory ==
  \/ CallAllocate
  \/ CallRelease

SpecMemory == InitMemory /\ [][NextMemory]_vars

(***************************************************************************)
(* CalcElemVolume on a hexahedron and on the same hexahedron with the      *)
(* bottom face (corners 0..3) and the top face (corners 4..7) exchanged.   *)
(***************************************************************************)
\* coordinates of coincident corners range over multiples of 1/2 up to
\* MaxPoint halves either side of the origin
MaxPoint == 2

\* the corner array with corner k exchanged with corner k+4
SwapTopBottom(a) == [k \in 0..7 |-> a[(k + 4) % 8]]

\* all eight corners at the same point (px/2, py/2, pz/2)
CoincidentCorners ==
  { [x |-> [k \in 0..7 |-> Rat(px, 2)],
     y |-> [k \in 0..7 |-> Rat(py, 2)],
     z |-> [k \in 0..7 |-> Rat(pz, 2)],
     called |-> FALSE, volume |-> RZero] :
      px \in -MaxPoint..MaxPoint, py \in -MaxPoint..MaxPoint,
      pz \in -MaxPoint..MaxPoint }

VolumeCases ==
  { h @@ [swapCalled |-> FALSE, swapVolume |-> RZero] :
      h \in Hexahedra \cup CoincidentCorners }

CallCalcElemVolumeSwapped ==
  /\ pc = "volume"
  /\ ~hex.swapCalled
  /\ hex' = [hex EXCEPT !.swapCalled = TRUE,
                        !.swapVolume = CalcElemVolume(SwapTopBottom(hex.x),
                                                      SwapTopBottom(hex.y),
                                                      SwapTopBottom(hex.z))]
  /\ UNCHANGED <<pc, args, dom, reg, imd, mem, prng>>

InitVolumeCases ==
  /\ pc = "volume"
  /\ hex \in VolumeCases
  /\ args = NoArgs
  /\ dom = NoDomain
  /\ reg = NoRegions
  /\ imd = NoDecomp
  /\ mem = NoMem
  /\ prng = NoPrng

NextVolumeCases ==
  \/ CallCalcElemVolume
  \/ CallCalcElemVolumeSwapped

SpecVolumeCases == InitVolumeCases /\ [][NextVolumeCases]_vars

(***************************************************************************)
(* The main loop's time stepping.  The constructor leaves the time members *)
(* (lines 792-802) and the initial deltaTime (line 838).  TimeIncrement,   *)
(* the constraint calculation and the main loop belong to lulesh.cc and    *)
(* follow section 4.2 of the specification.                                *)
(***************************************************************************)
\* the magnitude of the initial deltaTime is 1/1000 .. MaxStep/1000, the
\* time constraints a cycle leaves are in the same range, and the main
\* loop runs at most MaxCycles cycles
MaxStep == 4
MaxCycles == 3

\* Real_t(1.0e+20): compares above every other value of the model
Real1e20 == <<1, 0>>

StepMagnitudes == {Rat(k, 1000) : k \in 1..MaxStep}

Sign(a) == IF a[1] < 0 THEN -1 ELSE IF a[1] > 0 THEN 1 ELSE 0

\* line 838: (0.5*cbrt(referenceVolume(0)))/sqrt(2.0*einit).  cbrt keeps the
\* sign of its argument and sqrt is positive, so the sign is that of the
\* reference volume; the magnitude, an irrational, is an input
InitialDeltaTime(referenceVolume0, magnitude) ==
  RMul(R(Sign(referenceVolume0)), magnitude)

\* lines 798-799
ConstraintDefaults ==
  [courantConstraint |-> Real1e20, volumeChangeConstraint |-> Real1e20]

\* the Domain the constructor returns, with the members the main loop reads
ConstructedDomain(a, junk, magnitude) ==
  \* u is the Domain when CreateRegionIndexSets is called, d the Domain
  \* before line 838
  CHOOSE r \in
    {[deltaTime |-> InitialDeltaTime(d.referenceVolume[0], magnitude)]
       @@ ConstraintDefaults @@ d :
     d \in {ConstructAfterRegions(u, a) :
            u \in {ConstructUpToRegions(a, junk)}}} : TRUE

TwoThirds == Rat(2, 3)

\* "start from prevDt; if prevDt*ub < dt_max, keep prevDt; otherwise shrink
\* by ub"
GrowthLimited(d) ==
  IF RLess(RMul(d.deltaTime, d.m_deltatimemultub), d.maxAllowableTimeIncrement)
  THEN d.deltaTime
  ELSE RDiv(d.deltaTime, d.m_deltatimemultub)

\* "if dt_c < dt_new*(2/3), dt_new = dt_c*(2/3)", for either constraint
Shrinks(newdt, constraint) == RLess(constraint, RMul(newdt, TwoThirds))
Constrain(newdt, constraint) ==
  IF Shrinks(newdt, constraint) THEN RMul(constraint, TwoThirds) ELSE newdt

\* "the ratio to previous is clamped into [lb, ub] - i.e. time-step may grow
\* by at most 20% or shrink arbitrarily, subject to the floor": growth above
\* ub is cut to ub, growth below lb goes back to the previous step, and a
\* shrinking step is left alone
ClampRatio(d, newdt) ==
  LET olddt == d.deltaTime
      lb == d.m_deltatimemultlb
      ub == d.m_deltatimemultub
      ratio == RDiv(newdt, olddt)
  IN  IF olddt = RZero THEN newdt
      ELSE IF RLess(ub, ratio) THEN RMul(olddt, ub)
      ELSE IF ~RLess(ratio, ROne) /\ RLess(ratio, lb) THEN olddt
      ELSE newdt

\* "finally clamp to not overshoot stop_time"
ClampToStop(d, newdt) ==
  LET targetdt == RSub(d.stopTime, d.currentTime)
  IN  IF RLess(targetdt, newdt) THEN targetdt ELSE newdt

\* t <- t - dt
AdvanceTimeBackwards(t, dt) == RSub(t, dt)

\* "advance t <- t + dt"
AdvanceTime(t, dt) == RAdd(t, dt)

\* one call; olddt and shrunk keep the previous step and whether either
\* constraint shrank the new one
TimeIncrement(d) ==
  LET grown == GrowthLimited(d)
      byCourant == Constrain(grown, d.courantConstraint)
      byVolume == Constrain(byCourant, d.volumeChangeConstraint)
      newdt ==
        IF ~RLess(d.fixedTimeIncrement, RZero) THEN d.fixedTimeIncrement
        ELSE ClampToStop(d, ClampRatio(d, byVolume))
  IN  [deltaTime |-> newdt,
       currentTime |-> AdvanceTime(d.currentTime, newdt),
       iterationCount |-> d.iterationCount + 1,
       olddt |-> d.deltaTime,
       shrunk |-> (Shrinks(grown, d.courantConstraint)
                   \/ Shrinks(byCourant, d.volumeChangeConstraint))] @@ d

\* the constraints the rest of a cycle leaves for the next call
ConstraintValues == {Real1e20} \cup StepMagnitudes

\* the main loop is entered on single-region, single-rank Domains
TimeArgs ==
  {a \in DomainArgs : a.nr = 1 /\ a.tp = 1 /\ a.cost = 1}

\* "the main loop is bounded by cycle count and stop_time"
CallTimeIncrement ==
  /\ pc \in {"constructed", "cycle"}
  /\ RLess(dom.currentTime, dom.stopTime)
  /\ dom.iterationCount < MaxCycles
  /\ dom' = TimeIncrement(dom)
  /\ pc' = "incremented"
  /\ UNCHANGED <<args, reg, imd, hex, mem, prng>>

LagrangeLeapFrog ==
  /\ pc = "incremented"
  /\ \E c \in ConstraintValues, v \in ConstraintValues :
       dom' = [dom EXCEPT !.courantConstraint = c,
                          !.volumeChangeConstraint = v]
  /\ pc' = "cycle"
  /\ UNCHANGED <<args, reg, imd, hex, mem, prng>>

InitTime ==
  /\ pc = "constructed"
  /\ args \in TimeArgs
  /\ \E junk \in IndeterminateIndex, magnitude \in StepMagnitudes :
       dom = ConstructedDomain(args, junk, magnitude)
  /\ reg = NoRegions
  /\ imd = NoDecomp
  /\ hex = NoHex
  /\ mem = NoMem
  /\ prng = NoPrng

NextTime ==
  \/ CallTimeIncrement
  \/ LagrangeLeapFrog

SpecTime == InitTime /\ [][NextTime]_vars

(***************************************************************************)
(* The nodal sum of per-corner values (the force scatter of section 4.4 of *)
(* the specification, in lulesh.cc), on the structures the constructor     *)
(* built: scattered element by element, and gathered node by node through  *)
(* nodeElemCount and nodeElemCornerList by threads that each own a range   *)
(* of nodes.                                                               *)
(***************************************************************************)
\* the corner values are ((m*k + m) mod 5 - 2)/2 for corner k and m in
\* 1..MaxValueSeed
MaxValueSeed == 1
\* the gather is run on meshes of at most this many elements
MaxGatherElems == 8

RECURSIVE ScatterLoop(_, _, _, _, _)
\* the sequential scatter over corners lo <= k < hi, k = e*8 + c:
\* sum[nodelist(e)[c]] += values[k]
ScatterLoop(sum, d, values, lo, hi) ==
  IF hi <= lo THEN sum
  ELSE IF hi = lo + 1
  THEN [sum EXCEPT ![nodelist(d, lo \div 8)[lo % 8]] = RAdd(@, values[lo])]
  ELSE LET mid == (lo + hi) \div 2
       IN  CHOOSE r \in {ScatterLoop(h, d, values, mid, hi) :
                         h \in {ScatterLoop(sum, d, values, lo, mid)}} : TRUE

\* GatherNode without the first entry of the list
GatherNodeFromSecond(d, values, n) ==
  LET cornerList == nodeElemCornerList(d, n)
  IN  RSumRange([i \in 0..(nodeElemCount(d, n) - 1) |-> values[cornerList[i]]],
                1, nodeElemCount(d, n))

\* the sum for node n: values[cornerList[i]] over the nodeElemCount(n)
\* entries of nodeElemCornerList(n)
GatherNode(d, values, n) ==
  LET cornerList == nodeElemCornerList(d, n)
  IN  RSumRange([i \in 0..(nodeElemCount(d, n) - 1) |-> values[cornerList[i]]],
                0, nodeElemCount(d, n))

\* the first node of the range of thread t: the nodes are split into
\* numthreads ranges of ceil(numNode/numthreads) nodes
FirstNodeOf(d, numthreads, t) ==
  LET chunk == (d.numberOfNodes + numthreads - 1) \div numthreads
  IN  IF t * chunk < d.numberOfNodes THEN t * chunk ELSE d.numberOfNodes

\* the corner values are chosen and scattered by one thread
ScatterSequential ==
  /\ pc = "threads_done"
  /\ args.numthreads > 1
  /\ \E m \in 1..MaxValueSeed :
       LET values == [k \in 0..(8 * dom.numberOfElements - 1) |->
                        Rat(((m * k + m) % 5) - 2, 2)]
           zero == [n \in NodeIdx(dom.numberOfNodes) |-> RZero]
       IN  dom' = [cornerValues |-> values,
                   scattered |-> ScatterLoop(zero, dom, values, 0,
                                             8 * dom.numberOfElements),
                   gathered |-> zero,
                   done |-> [t \in 0..(args.numthreads - 1) |-> 0]] @@ dom
  /\ pc' = "gather"
  /\ UNCHANGED <<args, reg, imd, hex, mem, prng>>

\* some thread gathers the next node of its range
GatherNextNode ==
  /\ pc = "gather"
  /\ \E t \in 0..(args.numthreads - 1) :
       LET n == FirstNodeOf(dom, args.numthreads, t) + dom.done[t]
       IN  /\ n < FirstNodeOf(dom, args.numthreads, t + 1)
           /\ dom' = [dom EXCEPT
                        !.gathered[n] = GatherNode(dom, dom.cornerValues, n),
                        !.done[t] = @ + 1]
  /\ UNCHANGED <<pc, args, reg, imd, hex, mem, prng>>

\* the constructor of the _OPENMP build on one rank with several threads
InitGather ==
  /\ InitThreads
  /\ args.numRanks = 1 /\ args.tp = 1
  /\ args.numthreads > 1
  /\ args.nx * args.nx * args.nx <= MaxGatherElems

NextGather ==
  \/ DomainBeginOpenMP
  \/ CallSetupThreadSupportStructures
  \/ ScatterSequential
  \/ GatherNextNode

SpecGather == InitGather /\ [][NextGather]_vars

(***************************************************************************)
(* The scratch arrays of the Domain: AllocateGradients,                    *)
(* DeallocateGradients, AllocateStrains and DeallocateStrains (lines       *)
(* 220-256) on the nine pointer members of lines 502-512.                  *)
(***************************************************************************)
ScratchPointers ==
  {"principalStrainsX", "principalStrainsY", "principalStrainsZ",
   "m_delv_xi", "m_delv_eta", "m_delv_zeta",
   "m_delx_xi", "m_delx_eta", "m_delx_zeta"}

\* the values a pointer member holds that no initialiser and no statement
\* of the constructor has written: NULL, or an address (-1) that malloc
\* never returned
IndeterminatePointers == {NULL, -1}

AllocateStrains ==
  /\ pc = "scratch"
  /\ \E numElem \in AllocSizes :
       \E r1 \in MallocOutcomes(mem) :
         LET m1 == Allocate(mem, "principalStrainsX", numElem, r1)
         IN  \E r2 \in MallocOutcomes(m1) :
               LET m2 == Allocate(m1, "principalStrainsY", numElem, r2)
               IN  \E r3 \in MallocOutcomes(m2) :
                     mem' = [Allocate(m2, "principalStrainsZ", numElem, r3)
                               EXCEPT !.last = "AllocateStrains"]
  /\ UNCHANGED <<pc, args, dom, reg, imd, hex, prng>>

DeallocateStrains ==
  /\ pc = "scratch"
  /\ mem' = [Release(Release(Release(mem, "principalStrainsZ"),
                             "principalStrainsY"),
                     "principalStrainsX")
               EXCEPT !.last = "DeallocateStrains"]
  /\ UNCHANGED <<pc, args, dom, reg, imd, hex, prng>>

AllocateGradients ==
  /\ pc = "scratch"
  /\ \E numElem \in AllocSizes, allElem \in AllocSizes :
       /\ allElem >= numElem
       /\ \E r1 \in MallocOutcomes(mem) :
         LET m1 == Allocate(mem, "m_delx_xi", numElem, r1)
         IN  \E r2 \in MallocOutcomes(m1) :
               LET m2 == Allocate(m1, "m_delx_eta", numElem, r2)
               IN  \E r3 \in MallocOutcomes(m2) :
                     LET m3 == Allocate(m2, "m_delx_zeta", numElem, r3)
                     IN  \E r4 \in MallocOutcomes(m3) :
                           LET m4 == Allocate(m3, "m_delv_xi", allElem, r4)
                           IN  \E r5 \in MallocOutcomes(m4) :
                                 LET m5 == Allocate(m4, "m_delv_eta", allElem, r5)
                                 IN  \E r6 \in MallocOutcomes(m5) :
                                       mem' = [Allocate(m5, "m_delv_zeta",
                                                        allElem, r6)
                                                 EXCEPT !.last = "AllocateGradients"]
  /\ UNCHANGED <<pc, args, dom, reg, imd, hex, prng>>

DeallocateGradients ==
  /\ pc = "scratch"
  /\ mem' = [Release(Release(Release(Release(Release(Release(mem,
                 "m_delx_zeta"), "m_delx_eta"), "m_delx_xi"),
                 "m_delv_zeta"), "m_delv_eta"), "m_delv_xi")
               EXCEPT !.last = "DeallocateGradients"]
  /\ UNCHANGED <<pc, args, dom, reg, imd, hex, prng>>

\* the Domain after construction: the member initialiser list (lines
\* 662-699) and the constructor body leave the nine pointers unwritten
InitScratch ==
  /\ pc = "scratch"
  /\ \E ptr \in [ScratchPointers -> IndeterminatePointers] :
       mem = [ptr |-> ptr,
              next |-> 1,
              bytes |-> [b \in Blocks |-> 0],
              frees |-> [b \in Blocks \cup {-1} |-> 0],
              last |-> "Domain"]
  /\ args = NoArgs
  /\ dom = NoDomain
  /\ reg = NoRegions
  /\ imd = NoDecomp
  /\ hex = NoHex
  /\ prng = NoPrng

NextScratch ==
  \/ AllocateStrains
  \/ DeallocateStrains
  \/ AllocateGradients
  \/ DeallocateGradients

SpecScratch == InitScratch /\ [][NextScratch]_vars

(***************************************************************************)
(* Properties.                                                             *)
(***************************************************************************)
Constructed == pc = "constructed"
RegionsConverted == pc \in {"regions_done", "constructed"}

\* lattice position of element e of a subdomain of edge nx
ColOf(e, nx) == e % nx
RowOf(e, nx) == (e \div nx) % nx
PlaneOf(e, nx) == e \div (nx * nx)
ValuesOf(f) == {f[k] : k \in DOMAIN f}

\* C1: once CreateRegionIndexSets has returned, the region data is a
\* partition of the elements: every regNumList(i) lies in 1..nr, element i
\* occurs exactly once in regElemlist(regNumList(i)-1) and in no other list,
\* regElemSize(r) is the number of elements of region id r+1, and the sizes
\* of the nr regions sum to numElem.
C1_RegionPartition ==
  RegionsConverted =>
    LET numElem == dom.numberOfElements
        nr == reg.numberOfRegions
        Occurrences(r, i) ==
          Cardinality({k \in DOMAIN reg.regElemlist[r] : reg.regElemlist[r][k] = i})
    IN  /\ \A i \in ElemIdx(numElem) : reg.regNumList[i] \in 1..nr
        /\ \A r \in 0..(nr - 1) :
             /\ reg.regElemSize[r] =
                  Cardinality({i \in ElemIdx(numElem) : reg.regNumList[i] = r + 1})
             /\ DOMAIN reg.regElemlist[r] = 1..reg.regElemSize[r]
        /\ \A i \in ElemIdx(numElem) : \A r \in 0..(nr - 1) :
             Occurrences(r, i) = IF r = reg.regNumList[i] - 1 THEN 1 ELSE 0
        /\ SumTo(reg.regElemSize, nr) = numElem

\* C1 witness: two regions of at least two elements each, element 0 in the
\* second one
C1_Witness ==
  /\ pc = "regions_done"
  /\ reg.numberOfRegions = 2
  /\ reg.regElemSize[0] >= 2
  /\ reg.regElemSize[1] >= 2
  /\ reg.regNumList[0] = 2

\* C2: after construction the nodal masses of all nodes and the element
\* masses of all elements have the same sum, in exact arithmetic.
C2_MassConserved ==
  Constructed =>
    RSumTo(dom.nodalMass, dom.numberOfNodes)
      = RSumTo(dom.m_elemMass, dom.numberOfElements)

\* C2 witness: a constructed mesh of several elements with a nonzero total
\* mass and nodes shared by different numbers of elements
C2_Witness ==
  /\ Constructed
  /\ args.nx >= 2
  /\ args.tp >= 2
  /\ RSumTo(dom.m_elemMass, dom.numberOfElements) # RZero
  /\ \E n \in NodeIdx(dom.numberOfNodes) : dom.nodalMass[n] # dom.nodalMass[0]

\* the node at lattice position (c, r, p)
NodeAt(c, r, p, nx) == p * (nx + 1) * (nx + 1) + r * (nx + 1) + c
\* the corner offsets in the canonical order
CornerOffset ==
  [k \in 0..7 |->
     <<IF k \in {1, 2, 5, 6} THEN 1 ELSE 0,
       IF k \in {2, 3, 6, 7} THEN 1 ELSE 0,
       IF k \in {4, 5, 6, 7} THEN 1 ELSE 0>>]

\* C3: after BuildMesh, nodelist(e)[k] of the element at (col, row, plane)
\* is the node at (col, row, plane) + offset_k, node (c, r, p) having index
\* p*(nx+1)^2 + r*(nx+1) + c; the eight indices are pairwise distinct and
\* lie in [0, numNode).
C3_NodelistCanonical ==
  pc # "new" =>
    LET nx == args.nx
    IN  \A col \in 0..(nx - 1), row \in 0..(nx - 1), plane \in 0..(nx - 1) :
          LET nl == nodelist(dom, plane * nx * nx + row * nx + col)
          IN  /\ \A k \in 0..7 :
                   nl[k] = NodeAt(col + CornerOffset[k][1], row + CornerOffset[k][2],
                                  plane + CornerOffset[k][3], nx)
              /\ Cardinality(ValuesOf(nl)) = 8
              /\ \A k \in 0..7 : nl[k] \in NodeIdx(dom.numberOfNodes)

\* C3 witness: BuildMesh has run on a mesh of several rows and planes, and
\* the last element ends at the last node
C3_Witness ==
  /\ pc = "regions_entry"
  /\ args.nx >= 2
  /\ nodelist(dom, dom.numberOfElements - 1)[6] = dom.numberOfNodes - 1
  /\ nodelist(dom, 1)[3] = args.nx + 2

\* the face field a minus face must hold
MinusField(onFace, loc, symm, comm) ==
  IF ~onFace THEN 0 ELSE IF loc = 0 THEN symm ELSE comm
\* the face field a plus face must hold
PlusField(onFace, loc, tp, free, comm) ==
  IF ~onFace THEN 0 ELSE IF loc = tp - 1 THEN free ELSE comm

\* C4: after SetupBoundaryConditions, each 3-bit face field of elemBC is
\* nonzero iff the element lies on that face of the subdomain, and then it
\* is exactly one bit: SYMM (location 0) or COMM on a minus face, FREE
\* (location tp-1) or COMM on a plus face; no minus face is FREE and no
\* plus face is SYMM.
C4_FaceFields ==
  Constructed =>
    \A e \in ElemIdx(dom.numberOfElements) :
      LET bc == dom.m_elemBC[e]
          nx == args.nx
          col == ColOf(e, nx)
          row == RowOf(e, nx)
          plane == PlaneOf(e, nx)
      IN  /\ FaceField(bc, XI_M_SYMM)
               = MinusField(col = 0, args.colLoc, XI_M_SYMM, XI_M_COMM)
          /\ FaceField(bc, XI_P_SYMM)
               = PlusField(col = nx - 1, args.colLoc, args.tp, XI_P_FREE, XI_P_COMM)
          /\ FaceField(bc, ETA_M_SYMM)
               = MinusField(row = 0, args.rowLoc, ETA_M_SYMM, ETA_M_COMM)
          /\ FaceField(bc, ETA_P_SYMM)
               = PlusField(row = nx - 1, args.rowLoc, args.tp, ETA_P_FREE, ETA_P_COMM)
          /\ FaceField(bc, ZETA_M_SYMM)
               = MinusField(plane = 0, args.planeLoc, ZETA_M_SYMM, ZETA_M_COMM)
          /\ FaceField(bc, ZETA_P_SYMM)
               = PlusField(plane = nx - 1, args.planeLoc, args.tp,
                           ZETA_P_FREE, ZETA_P_COMM)
          /\ ~HasBit(bc, XI_M_FREE) /\ ~HasBit(bc, ETA_M_FREE)
          /\ ~HasBit(bc, ZETA_M_FREE)
          /\ ~HasBit(bc, XI_P_SYMM) /\ ~HasBit(bc, ETA_P_SYMM)
          /\ ~HasBit(bc, ZETA_P_SYMM)

\* C4 witness: an element with a COMM minus face, a SYMM minus face, a FREE
\* plus face and an interior face at once
C4_Witness ==
  /\ Constructed
  /\ args.nx >= 2
  /\ \E e \in ElemIdx(dom.numberOfElements) :
       /\ HasBit(dom.m_elemBC[e], XI_M_COMM)
       /\ HasBit(dom.m_elemBC[e], ETA_M_SYMM)
       /\ HasBit(dom.m_elemBC[e], ZETA_P_FREE)
       /\ FaceField(dom.m_elemBC[e], XI_P_SYMM) = 0

\* neighbour index nbr of a face whose COMM bit is commBit
NeighbourAgrees(nbr, bc, commBit, numElem) ==
  /\ (nbr >= numElem) <=> HasBit(bc, commBit)
  /\ ~HasBit(bc, commBit) => nbr \in ElemIdx(numElem)

\* the six neighbour indices of element e
Neighbours(d, e) ==
  {d.m_lxim[e], d.m_lxip[e], d.m_letam[e], d.m_letap[e], d.m_lzetam[e],
   d.m_lzetap[e]}

\* C5: after construction, the neighbour index of element i in direction d
\* is a ghost index (>= numElem) iff the COMM bit of face d is set in
\* elemBC(i), and a local element index otherwise; with tp = 1 no
\* neighbour index is a ghost index.
C5_GhostIffComm ==
  Constructed =>
    LET numElem == dom.numberOfElements
    IN  \A e \in ElemIdx(numElem) :
          LET bc == dom.m_elemBC[e]
          IN  /\ NeighbourAgrees(dom.m_lxim[e], bc, XI_M_COMM, numElem)
              /\ NeighbourAgrees(dom.m_lxip[e], bc, XI_P_COMM, numElem)
              /\ NeighbourAgrees(dom.m_letam[e], bc, ETA_M_COMM, numElem)
              /\ NeighbourAgrees(dom.m_letap[e], bc, ETA_P_COMM, numElem)
              /\ NeighbourAgrees(dom.m_lzetam[e], bc, ZETA_M_COMM, numElem)
              /\ NeighbourAgrees(dom.m_lzetap[e], bc, ZETA_P_COMM, numElem)
              /\ (args.tp = 1 => \A nbr \in Neighbours(dom, e) : nbr < numElem)

\* C5 witness: an element with a ghost neighbour on one side and a local
\* neighbour on the opposite side, next to a symmetry face
C5_Witness ==
  /\ Constructed
  /\ args.nx >= 2
  /\ \E e \in ElemIdx(dom.numberOfElements) :
       /\ dom.m_lxim[e] >= dom.numberOfElements
       /\ dom.m_lxip[e] = e + 1
       /\ HasBit(dom.m_elemBC[e], ETA_M_SYMM)
       /\ dom.m_letam[e] = e

\* a symmetry node list against the lattice nodes it must hold
SymmetryListAgrees(list, atOrigin, expected, edgeNodes) ==
  /\ (DOMAIN list # {}) <=> atOrigin
  /\ atOrigin =>
       /\ Cardinality(DOMAIN list) = edgeNodes * edgeNodes
       /\ ValuesOf(list) = expected
       /\ Cardinality(ValuesOf(list)) = Cardinality(DOMAIN list)

\* C6: after construction the X symmetry node list is non-empty iff
\* colLoc = 0 and then holds exactly the (nx+1)^2 nodes of lattice column 0
\* (the nodes with x = 0), each once; likewise Y with rowLoc and row 0, Z
\* with planeLoc and plane 0.
C6_SymmetryLists ==
  Constructed =>
    LET edgeNodes == args.nx + 1
        nodes == NodeIdx(dom.numberOfNodes)
    IN  /\ SymmetryListAgrees(dom.symmetryPlaneNodesetX, args.colLoc = 0,
                              {n \in nodes : n % edgeNodes = 0}, edgeNodes)
        /\ SymmetryListAgrees(dom.symmetryPlaneNodesetY, args.rowLoc = 0,
                              {n \in nodes : (n \div edgeNodes) % edgeNodes = 0},
                              edgeNodes)
        /\ SymmetryListAgrees(dom.symmetryPlaneNodesetZ, args.planeLoc = 0,
                              {n \in nodes : n \div (edgeNodes * edgeNodes) = 0},
                              edgeNodes)
        /\ \A n \in ValuesOf(dom.symmetryPlaneNodesetX) :
             dom.nodalCoordinateX[n] = RZero
        /\ \A n \in ValuesOf(dom.symmetryPlaneNodesetY) :
             dom.nodalCoordinateY[n] = RZero
        /\ \A n \in ValuesOf(dom.symmetryPlaneNodesetZ) :
             dom.nodalCoordinateZ[n] = RZero

\* C6 witness: a subdomain with an X and a Z symmetry list and no Y list
C6_Witness ==
  /\ Constructed
  /\ args.nx >= 2
  /\ args.colLoc = 0 /\ args.rowLoc = 1 /\ args.planeLoc = 0
  /\ args.nx * (args.nx + 1) \in ValuesOf(dom.symmetryPlaneNodesetX)
  /\ DOMAIN dom.symmetryPlaneNodesetY = {}

\* einit = 3.948746e+7 * (nx*tp/45)^3
ClaimedEinit(nx, tp) ==
  RMul(R(39487460), Rat(IPow(nx * tp, 3), IPow(45, 3)))

\* C7: right after construction every element has relative volume 1,
\* pressure, artificial viscosity and sound speed 0, every node has zero
\* velocity and acceleration, and every element has energy 0 except local
\* element 0 of the subdomain with colLoc + rowLoc + planeLoc = 0, whose
\* energy is 3.948746e+7 * (nx*tp/45)^3.
C7_InitialValues ==
  Constructed =>
    /\ \A e \in ElemIdx(dom.numberOfElements) :
         /\ dom.relativeVolume[e] = ROne
         /\ dom.pressure[e] = RZero
         /\ dom.artificialViscosity[e] = RZero
         /\ dom.soundSpeed[e] = RZero
         /\ dom.energy[e] =
              IF e = 0 /\ args.colLoc + args.rowLoc + args.planeLoc = 0
              THEN ClaimedEinit(args.nx, args.tp) ELSE RZero
    /\ \A n \in NodeIdx(dom.numberOfNodes) :
         /\ dom.nodalVelocityX[n] = RZero
         /\ dom.nodalVelocityY[n] = RZero
         /\ dom.nodalVelocityZ[n] = RZero
         /\ dom.nodalAccelerationX[n] = RZero
         /\ dom.nodalAccelerationY[n] = RZero
         /\ dom.nodalAccelerationZ[n] = RZero

\* C7 witness: the origin subdomain of a decomposed mesh, with the energy
\* deposited in element 0 only
C7_Witness ==
  /\ Constructed
  /\ args.nx >= 2
  /\ args.tp >= 2
  /\ args.colLoc + args.rowLoc + args.planeLoc = 0
  /\ RLess(RZero, dom.energy[0])
  /\ dom.energy[1] = RZero

\* C8: a constructed Domain reports its constructor arguments (number of
\* ranks, colLoc, rowLoc, planeLoc, tp, number of regions, imbalance cost),
\* sizeX = sizeY = sizeZ = nx, nx^3 elements and (nx+1)^3 nodes.
C8_AccessorsReportArguments ==
  Constructed =>
    /\ dom.numberOfRanks = args.numRanks
    /\ dom.m_colLoc = args.colLoc
    /\ dom.m_rowLoc = args.rowLoc
    /\ dom.m_planeLoc = args.planeLoc
    /\ dom.m_tp = args.tp
    /\ reg.numberOfRegions = args.nr
    /\ dom.imbalanceCost = args.cost
    /\ dom.m_sizeX = args.nx /\ dom.m_sizeY = args.nx /\ dom.m_sizeZ = args.nx
    /\ dom.numberOfElements = IPow(args.nx, 3)
    /\ dom.numberOfNodes = IPow(args.nx + 1, 3)

\* C8 witness: a Domain whose arguments all differ where they can
C8_Witness ==
  /\ Constructed
  /\ args.numRanks = 8
  /\ args.tp = 2
  /\ args.colLoc = 1 /\ args.rowLoc = 0 /\ args.planeLoc = 1
  /\ args.nx = 2
  /\ args.cost = 2
  /\ dom.m_colLoc = 1

PositiveCubes == {IPow(r, 3) : r \in 1..(MaxNumRanks + 1)}

Diff(a, i, j) == RSub(a[i], a[j])
\* the sum d_ij + d_kl
Diff2(a, i, j, k, l) == RAdd(Diff(a, i, j), Diff(a, k, l))

\* twelve times the closed form of the signed volume
TwelveVolumes(x, y, z) ==
  RAdd(RAdd(
    RMul(Diff2(x, 3, 1, 7, 2),
         RSub(RMul(Diff2(y, 6, 3, 2, 0), Diff2(z, 7, 0, 5, 7)),
              RMul(Diff2(y, 7, 0, 5, 7), Diff2(z, 6, 3, 2, 0)))),
    RMul(Diff2(x, 6, 3, 2, 0),
         RSub(RMul(Diff2(y, 7, 0, 5, 7), Diff2(z, 3, 1, 7, 2)),
              RMul(Diff2(y, 3, 1, 7, 2), Diff2(z, 7, 0, 5, 7))))),
    RMul(Diff2(x, 7, 0, 5, 7),
         RSub(RMul(Diff2(y, 3, 1, 7, 2), Diff2(z, 6, 3, 2, 0)),
              RMul(Diff2(y, 6, 3, 2, 0), Diff2(z, 3, 1, 7, 2)))))

\* C10: for every choice of the corner coordinates, CalcElemVolume(x, y, z)
\* is one twelfth of (dx31+dx72)*((dy63+dy20)*(dz70+dz57) -
\* (dy70+dy57)*(dz63+dz20)) + (dx63+dx20)*((dy70+dy57)*(dz31+dz72) -
\* (dy31+dy72)*(dz70+dz57)) + (dx70+dx57)*((dy31+dy72)*(dz63+dz20) -
\* (dy63+dy20)*(dz31+dz72)), with d_ij = p_i - p_j.
C10_VolumeClosedForm ==
  hex.called => RMul(R(12), hex.volume) = TwelveVolumes(hex.x, hex.y, hex.z)

\* C10 witness: a hexahedron with one corner moved off the box, of nonzero
\* volume
C10_Witness ==
  /\ hex.called
  /\ hex.volume # RZero
  /\ hex.x[6] # hex.x[5]

\* C11: for the axis-aligned box with corner 0 at the origin, positive edge
\* lengths a, b, c along x, y, z and corners in the canonical order,
\* CalcElemVolume returns a*b*c (1 for the unit cube, 24 for 2 x 3 x 4).
C11_BoxVolume ==
  hex.called =>
    \A a \in 1..(MaxExtent + 1), b \in 1..(MaxExtent + 1), c \in 1..(MaxExtent + 1) :
      (hex.x = BoxX(a) /\ hex.y = BoxY(b) /\ hex.z = BoxZ(c))
        => hex.volume = R(a * b * c)

\* C12: after construction every element of the lattice mesh has a
\* strictly positive reference volume.
C12_ReferenceVolumePositive ==
  Constructed =>
    \A e \in ElemIdx(dom.numberOfElements) : RLess(RZero, dom.referenceVolume[e])

\* C13: for every hexahedron of nonzero CalcElemVolume, the hexahedron
\* with corner k exchanged with corner k+4 has a CalcElemVolume of the
\* opposite sign.
C13_SwapFlipsSign ==
  (hex.called /\ hex.swapCalled /\ hex.volume # RZero) =>
    IF RLess(RZero, hex.volume)
    THEN RLess(hex.swapVolume, RZero)
    ELSE RLess(RZero, hex.swapVolume)

AllCoincide(h) ==
  \A k \in 0..7 : h.x[k] = h.x[0] /\ h.y[k] = h.y[0] /\ h.z[k] = h.z[0]

\* C14: CalcElemVolume returns exactly 0 when all eight corners are at the
\* same point, wherever that point is.
C14_CoincidentIsZero ==
  (hex.called /\ AllCoincide(hex)) => hex.volume = RZero

\* C14 witness: CalcElemVolume called on eight corners at one point off
\* the origin and off the diagonal
C14_Witness ==
  /\ hex.called
  /\ AllCoincide(hex)
  /\ hex.x[0] # RZero
  /\ hex.y[0] # hex.x[0]
  /\ hex.z[0] # hex.y[0]

\* the elements that have node n as a corner
ElementsAt(n) ==
  {e \in ElemIdx(dom.numberOfElements) :
     \E k \in 0..7 : dom.nodeConnectivityList[8 * e + k] = n}

\* the sum of the reference volumes of the elements that have n as a corner
VolumeAround(n) ==
  RSumTo([e \in ElemIdx(dom.numberOfElements) |->
            IF e \in ElementsAt(n) THEN dom.referenceVolume[e] ELSE RZero],
         dom.numberOfElements)

\* C15: after construction every element's mass equals its reference
\* volume and both are nonzero; every node's mass is one eighth of the sum
\* of the reference volumes of the elements that have the node as a corner,
\* and is nonzero.
C15_MassesFromVolumes ==
  Constructed =>
    /\ \A e \in ElemIdx(dom.numberOfElements) :
         /\ dom.m_elemMass[e] = dom.referenceVolume[e]
         /\ dom.referenceVolume[e] # RZero
    /\ \A n \in NodeIdx(dom.numberOfNodes) :
         /\ dom.nodalMass[n] = RDiv(VolumeAround(n), R(8))
         /\ dom.nodalMass[n] # RZero

\* C15 witness: a constructed mesh with a node that is a corner of eight
\* elements and a node that is a corner of one
C15_Witness ==
  /\ Constructed
  /\ \E n \in NodeIdx(dom.numberOfNodes) : Cardinality(ElementsAt(n)) = 8
  /\ Cardinality(ElementsAt(0)) = 1
  /\ dom.nodalMass[0] # RZero

ThreadsBuilt == pc \in {"threads_done", "exited"} /\ args.numthreads > 1

\* the values e*8+c with nodelist(e)[c] = n
CornersOn(n) ==
  {k \in 0..(8 * dom.numberOfElements - 1) : nodelist(dom, k \div 8)[k % 8] = n}

\* C16: when the thread-support structures are built they are the CSR
\* inverse of the element-to-node connectivity: m_nodeElemStart starts at
\* 0, does not decrease and ends at 8*numElem; the nodeElemCount(n) entries
\* of nodeElemCornerList(n) are exactly the values e*8+c with
\* nodelist(e)[c] = n; every value in [0, 8*numElem) occurs in exactly one
\* place; the out-of-range exit is not taken.
C16_CornerListsInvertNodelist ==
  ThreadsBuilt =>
    /\ pc # "exited"
    /\ dom.m_nodeElemStart[0] = 0
    /\ \A n \in NodeIdx(dom.numberOfNodes) :
         dom.m_nodeElemStart[n] <= dom.m_nodeElemStart[n + 1]
    /\ dom.m_nodeElemStart[dom.numberOfNodes] = 8 * dom.numberOfElements
    /\ \A n \in NodeIdx(dom.numberOfNodes) :
         /\ ValuesOf(nodeElemCornerList(dom, n)) = CornersOn(n)
         /\ nodeElemCount(dom, n) = Cardinality(CornersOn(n))
    /\ \A v \in 0..(8 * dom.numberOfElements - 1) :
         Cardinality({o \in DOMAIN dom.m_nodeElemCornerList :
                        dom.m_nodeElemCornerList[o] = v}) = 1

\* C16 witness: the structures built for a mesh of several elements, with
\* a node that has eight corners in its list
C16_Witness ==
  /\ ThreadsBuilt
  /\ dom.numberOfElements >= 8
  /\ \E n \in NodeIdx(dom.numberOfNodes) : nodeElemCount(dom, n) = 8

\* C17: Release(&ptr) leaves ptr NULL whether ptr was NULL or held a block
\* obtained from Allocate, no block is freed more than once, and a
\* Release(&ptr) right after a Release(&ptr) changes nothing.
C17_ReleaseNullsOnce ==
  /\ \A b \in Blocks : mem.frees[b] <= 1
  /\ mem.last.op = "Release" =>
       /\ mem.ptr[mem.last.p] = NULL
       /\ (mem.prev = mem.last =>
             (mem.ptr = mem.ptrBefore /\ mem.frees = mem.freesBefore))
       /\ \A b \in Blocks :
            mem.frees[b] = mem.freesBefore[b]
              + (IF mem.ptrBefore[mem.last.p] = b THEN 1 ELSE 0)

\* C17 witness: a block obtained from Allocate was released, then the
\* same pointer variable was released again
C17_Witness ==
  /\ mem.last.op = "Release"
  /\ mem.prev = mem.last
  /\ \E b \in Blocks : mem.frees[b] = 1 /\ mem.bytes[b] > 0

\* C18: a Domain constructed a second time with the same rank, nx, nr and
\* balance gets the same region id for every element as the first, whatever
\* the state of the generator was before either construction.
C18_RegionsReproducible ==
  (pc = "regions_done" /\ prng.run = 2) => reg.regNumList = prng.firstList

\* C18 witness: a second construction has finished with two regions both
\* in use, from a generator that was not in the seeded state at the start
C18_Witness ==
  /\ pc = "regions_done"
  /\ prng.run = 2
  /\ reg.numberOfRegions >= 2
  /\ \E i \in DOMAIN reg.regNumList : reg.regNumList[i] # reg.regNumList[0]
  /\ prng.firstList # <<>>

\* C19: with fixedTimeIncrement negative, a call of TimeIncrement in which
\* neither the Courant nor the volume-change constraint shrinks the step
\* leaves deltaTime <= 1.2 * the previous deltaTime.
C19_GrowthBounded ==
  (pc = "incremented" /\ RLess(dom.fixedTimeIncrement, RZero) /\ ~dom.shrunk)
    => ~RLess(RMul(Rat(12, 10), dom.olddt), dom.deltaTime)

C21_InteriorNeighbours ==
  Constructed =>
    \A e \in ElemIdx(dom.numberOfElements) :
      LET nx == args.nx
          col == ColOf(e, nx)
          row == RowOf(e, nx)
          plane == PlaneOf(e, nx)
      IN  /\ col > 0 => (dom.m_lxim[e] = e - 1 /\ dom.m_lxip[dom.m_lxim[e]] = e)
          /\ col < nx - 1 =>
               (dom.m_lxip[e] = e + 1 /\ dom.m_lxim[dom.m_lxip[e]] = e)
          /\ row > 0 =>
               (dom.m_letam[e] = e - nx /\ dom.m_letap[dom.m_letam[e]] = e)
          /\ row < nx - 1 =>
               (dom.m_letap[e] = e + nx /\ dom.m_letam[dom.m_letap[e]] = e)
          /\ plane > 0 =>
               (dom.m_lzetam[e] = e - nx * nx
                /\ dom.m_lzetap[dom.m_lzetam[e]] = e)
          /\ plane < nx - 1 =>
               (dom.m_lzetap[e] = e + nx * nx
                /\ dom.m_lzetam[dom.m_lzetap[e]] = e)

\* C21 witness: a constructed subdomain with interior faces in all three
\* directions and a communicating face whose neighbour is a ghost
C21_Witness ==
  /\ Constructed
  /\ args.nx >= 2
  /\ \E e \in ElemIdx(dom.numberOfElements) :
       /\ ColOf(e, args.nx) > 0 /\ RowOf(e, args.nx) > 0
       /\ PlaneOf(e, args.nx) > 0
       /\ dom.m_lxip[e] >= dom.numberOfElements

\* the side r of the cube of numRanks = r^3 ranks
CubeSide(numRanks) == CHOOSE r \in 1..numRanks : IPow(r, 3) = numRanks

\* <<col, row, plane>> as InitMeshDecomp writes them for rank k of numRanks
DecompCoords(numRanks, k) ==
  LET o == CHOOSE o \in InitMeshDecompOutcomes(DecompCall(numRanks, k)) : TRUE
  IN  <<o.col, o.row, o.plane>>

\* C22: for numRanks = r^3 and a rank k in [0, r^3), InitMeshDecomp returns
\* col = k mod r, row = (k div r) mod r, plane = k div (r*r), side = r, all
\* coordinates in [0, r); no other rank of the job gets the same triple and
\* every triple of the r x r x r grid is the triple of some rank.
C22_RankGridBijection ==
  (imd.status # "ready" /\ imd.numRanks \in PositiveCubes
     /\ imd.myRank < imd.numRanks) =>
    LET r == CubeSide(imd.numRanks)
        k == imd.myRank
        ranks == 0..(imd.numRanks - 1)
    IN  /\ imd.status = "returned"
        /\ imd.written = {"col", "row", "plane", "side"}
        /\ imd.col = k % r
        /\ imd.row = (k \div r) % r
        /\ imd.plane = k \div (r * r)
        /\ imd.side = r
        /\ imd.col \in 0..(r - 1) /\ imd.row \in 0..(r - 1)
        /\ imd.plane \in 0..(r - 1)
        /\ \A j \in ranks \ {k} :
             DecompCoords(imd.numRanks, j) # <<imd.col, imd.row, imd.plane>>
        /\ \A c \in 0..(r - 1), w \in 0..(r - 1), p \in 0..(r - 1) :
             \E j \in ranks : DecompCoords(imd.numRanks, j) = <<c, w, p>>

\* C22 witness: a rank with three different nonzero coordinates has returned
C22_Witness ==
  /\ imd.status = "returned"
  /\ imd.numRanks = 27
  /\ imd.col = 1 /\ imd.row = 2 /\ imd.plane = 1

\* 1.125*(loc*nx + k)/(tp*nx)
LatticeValue(loc, k) ==
  RDiv(RMul(Rat(9, 8), R(loc * args.nx + k)), R(args.tp * args.nx))
InUnitRange(v) == ~RLess(v, RZero) /\ ~RLess(Rat(9, 8), v)

\* the coordinates BuildMesh stores on the subdomain one step further along
\* the column, row or plane direction
MeshAt(colLoc, rowLoc, planeLoc) ==
  BuildMesh([dom EXCEPT !.m_colLoc = colLoc, !.m_rowLoc = rowLoc,
                        !.m_planeLoc = planeLoc],
            args.nx, args.nx + 1, args.nx)

\* C23: after construction the node at lattice position (col, row, plane)
\* of the subdomain at (colLoc, rowLoc, planeLoc) has x = 1.125*(colLoc*nx +
\* col)/(tp*nx), and y and z alike; all coordinates lie in [0, 1.125]; a node
\* on the plus face of the subdomain has the coordinates BuildMesh gives the
\* matching node on the minus face of the adjacent subdomain.
C23_LatticeCoordinates ==
  Constructed =>
    LET nx == args.nx
        edgeNodes == nx + 1
        at(c, w, p) == p * edgeNodes * edgeNodes + w * edgeNodes + c
        coords(d, n) ==
          <<d.nodalCoordinateX[n], d.nodalCoordinateY[n], d.nodalCoordinateZ[n]>>
    IN  /\ \A c \in 0..nx, w \in 0..nx, p \in 0..nx :
             LET n == at(c, w, p)
             IN  /\ dom.nodalCoordinateX[n] = LatticeValue(args.colLoc, c)
                 /\ dom.nodalCoordinateY[n] = LatticeValue(args.rowLoc, w)
                 /\ dom.nodalCoordinateZ[n] = LatticeValue(args.planeLoc, p)
                 /\ InUnitRange(dom.nodalCoordinateX[n])
                 /\ InUnitRange(dom.nodalCoordinateY[n])
                 /\ InUnitRange(dom.nodalCoordinateZ[n])
        /\ args.colLoc + 1 < args.tp =>
             LET nb == MeshAt(args.colLoc + 1, args.rowLoc, args.planeLoc)
             IN  \A w \in 0..nx, p \in 0..nx :
                   coords(dom, at(nx, w, p)) = coords(nb, at(0, w, p))
        /\ args.rowLoc + 1 < args.tp =>
             LET nb == MeshAt(args.colLoc, args.rowLoc + 1, args.planeLoc)
             IN  \A c \in 0..nx, p \in 0..nx :
                   coords(dom, at(c, nx, p)) = coords(nb, at(c, 0, p))
        /\ args.planeLoc + 1 < args.tp =>
             LET nb == MeshAt(args.colLoc, args.rowLoc, args.planeLoc + 1)
             IN  \A c \in 0..nx, w \in 0..nx :
                   coords(dom, at(c, w, nx)) = coords(nb, at(c, w, 0))

\* C23 witness: a constructed subdomain of several elements with an
\* adjacent subdomain in each direction
C23_Witness ==
  /\ Constructed
  /\ args.nx >= 2
  /\ args.colLoc + 1 < args.tp /\ args.rowLoc + 1 < args.tp
  /\ args.planeLoc + 1 < args.tp
  /\ dom.nodalCoordinateX[args.nx] = LatticeValue(args.colLoc, args.nx)

IsBox(h, a, b, c) == h.x = BoxX(a) /\ h.y = BoxY(b) /\ h.z = BoxZ(c)

GatheredNodes ==
  UNION {{FirstNodeOf(dom, args.numthreads, t) + i : i \in 0..(dom.done[t] - 1)} :
           t \in 0..(args.numthreads - 1)}

\* C25: whatever the corner values and however the threads interleave, a
\* node that has been gathered through nodeElemCornerList holds the total
\* the sequential scatter onto nodelist(e)[0..7] gives it and every other
\* node is untouched; the corner lists of different nodes share no entry.
C25_GatherEqualsScatter ==
  pc = "gather" =>
    /\ \A n \in NodeIdx(dom.numberOfNodes) :
         dom.gathered[n] =
           IF n \in GatheredNodes THEN dom.scattered[n] ELSE RZero
    /\ \A n \in NodeIdx(dom.numberOfNodes), m \in NodeIdx(dom.numberOfNodes) :
         n # m => ValuesOf(nodeElemCornerList(dom, n))
                    \cap ValuesOf(nodeElemCornerList(dom, m)) = {}

\* C25 witness: every node of a mesh of several elements has been gathered
\* and some node has a nonzero total from eight corners
C25_Witness ==
  /\ pc = "gather"
  /\ dom.numberOfElements >= 8
  /\ GatheredNodes = NodeIdx(dom.numberOfNodes)
  /\ \E n \in NodeIdx(dom.numberOfNodes) :
       nodeElemCount(dom, n) = 8 /\ dom.gathered[n] # RZero

\* the faces in the order plane-min, plane-max, row-min, row-max, col-min,
\* col-max: whether face f communicates, its elements and their neighbour
\* index across it
FaceCommunicates(f) ==
  CASE f = 0 -> args.planeLoc # 0
    [] f = 1 -> args.planeLoc # args.tp - 1
    [] f = 2 -> args.rowLoc # 0
    [] f = 3 -> args.rowLoc # args.tp - 1
    [] f = 4 -> args.colLoc # 0
    [] f = 5 -> args.colLoc # args.tp - 1
FaceElems(f) ==
  {e \in ElemIdx(dom.numberOfElements) :
     CASE f = 0 -> PlaneOf(e, args.nx) = 0
       [] f = 1 -> PlaneOf(e, args.nx) = args.nx - 1
       [] f = 2 -> RowOf(e, args.nx) = 0
       [] f = 3 -> RowOf(e, args.nx) = args.nx - 1
       [] f = 4 -> ColOf(e, args.nx) = 0
       [] f = 5 -> ColOf(e, args.nx) = args.nx - 1}
AcrossFace(f, e) ==
  CASE f = 0 -> dom.m_lzetam[e]
    [] f = 1 -> dom.m_lzetap[e]
    [] f = 2 -> dom.m_letam[e]
    [] f = 3 -> dom.m_letap[e]
    [] f = 4 -> dom.m_lxim[e]
    [] f = 5 -> dom.m_lxip[e]
GhostsOf(f) == {AcrossFace(f, e) : e \in FaceElems(f)}
CommFacesBefore(f) == Cardinality({g \in 0..5 : g < f /\ FaceCommunicates(g)})

\* C26: after construction the ghost indices of the communicating faces
\* fill consecutive blocks of nx*nx indices from numElem on, in the order
\* plane-min, plane-max, row-min, row-max, col-min, col-max; within a face
\* different boundary elements have different ghost indices, blocks of
\* different faces are disjoint, and every ghost index is below numElem +
\* nx*nx*(number of communicating faces).
C26_GhostBlocks ==
  Constructed =>
    LET numElem == dom.numberOfElements
        block == args.nx * args.nx
    IN  /\ \A f \in 0..5 :
             FaceCommunicates(f) =>
               LET first == numElem + block * CommFacesBefore(f)
               IN  /\ GhostsOf(f) = first..(first + block - 1)
                   /\ \A e1 \in FaceElems(f), e2 \in FaceElems(f) :
                        AcrossFace(f, e1) = AcrossFace(f, e2) => e1 = e2
                   /\ \A g \in 0..5 :
                        (g # f /\ FaceCommunicates(g)) =>
                          GhostsOf(f) \cap GhostsOf(g) = {}
                   /\ \A v \in GhostsOf(f) : v < numElem + block * CommFacesBefore(6)

\* C26 witness: a subdomain of several elements whose three minus faces
\* communicate; the col-min block is the third one
C26_Witness ==
  /\ Constructed
  /\ args.nx >= 2
  /\ FaceCommunicates(0) /\ FaceCommunicates(2) /\ FaceCommunicates(4)
  /\ ~FaceCommunicates(1) /\ ~FaceCommunicates(3)
  /\ \E e \in FaceElems(4) :
       dom.m_lxim[e] = dom.numberOfElements + 3 * args.nx * args.nx - 1

\* C27: CreateRegionIndexSets returns for every nr >= 1, every balance
\* exponent and every numElem >= 1, provided every rand() outcome stays
\* possible on every draw.
C27_RegionsTerminate == <>(pc = "regions_done")

\* C28: in every state after construction each scratch pointer is NULL or
\* holds a block that has not been freed, no call of free gets an address
\* that malloc did not return or a block already freed, and after
\* DeallocateStrains (DeallocateGradients) the pointers it covers are NULL.
C28_ScratchPointersSafe ==
  pc = "scratch" =>
    /\ \A p \in ScratchPointers :
         mem.ptr[p] = NULL \/ (mem.ptr[p] \in Blocks /\ mem.frees[mem.ptr[p]] = 0)
    /\ mem.frees[-1] = 0
    /\ \A b \in Blocks : mem.frees[b] <= 1
    /\ mem.last = "DeallocateStrains" =>
         \A p \in {"principalStrainsX", "principalStrainsY", "principalStrainsZ"} :
           mem.ptr[p] = NULL
    /\ mem.last = "DeallocateGradients" =>
         \A p \in ScratchPointers \ {"principalStrainsX", "principalStrainsY",
                                     "principalStrainsZ"} :
           mem.ptr[p] = NULL

\* the maximal runs of equal region number in the assigned part
\* regNumList[0 .. nextIndex-1], as pairs <<first, last>>
RegionRuns ==
  { <<lo, hi>> \in (0..(reg.nextIndex - 1)) \X (0..(reg.nextIndex - 1)) :
      /\ lo <= hi
      /\ \A i \in lo..hi : reg.regNumList[i] = reg.regNumList[lo]
      /\ (lo > 0 => reg.regNumList[lo - 1] # reg.regNumList[lo])
      /\ (hi < reg.nextIndex - 1 => reg.regNumList[hi + 1] # reg.regNumList[hi]) }

\* the largest chunk length that can be drawn
LongestChunk == CHOOSE e \in ChunkLengths : \A f \in ChunkLengths : f <= e

\* C29: for nr > 1 the region drawn for a chunk differs from the region of
\* the chunk before it, every chunk length drawn lies in 1..2048, and
\* every maximal run of equal regNumList value among the elements assigned
\* so far is no longer than the longest chunk (hence at most 2048).
C29_ChunksAlternate ==
  (reg.numberOfRegions > 1 /\ pc \in {"regions_pick", "regions_fill",
                                      "regions_convert", "regions_done"}) =>
    /\ \A rg \in ChunkRanges : 1 <= rg[1] /\ rg[1] <= rg[2] /\ rg[2] <= 2048
    /\ pc = "regions_fill" => reg.regionNum # reg.lastReg
    /\ reg.nextIndex > 0 => reg.lastReg = reg.regNumList[reg.nextIndex - 1]
    /\ \A run \in RegionRuns :
         /\ run[2] - run[1] + 1 <= LongestChunk
         /\ run[2] - run[1] + 1 <= 2048

\* CreateRegionIndexSets has returned with two regions, more elements than
\* the longest chunk, a run as long as the longest chunk and three runs
C29_Witness ==
  /\ pc = "regions_done"
  /\ reg.numberOfRegions = 2
  /\ reg.nextIndex = dom.numberOfElements
  /\ dom.numberOfElements > LongestChunk
  /\ Cardinality(RegionRuns) >= 3
  /\ \E run \in RegionRuns : run[2] - run[1] + 1 = LongestChunk

\* the smallest multiple of 128/sizeof(Real_t) that is >= n
SmallestPadMultiple(n) ==
  CHOOSE m \in 0..(n + CACHE_COHERENCE_PAD_REAL) :
    /\ m % CACHE_COHERENCE_PAD_REAL = 0
    /\ m >= n
    /\ \A k \in 0..(m - 1) : ~(k % CACHE_COHERENCE_PAD_REAL = 0 /\ k >= n)

\* C30: after construction getMaxPlaneSize() is the smallest multiple of
\* 128/sizeof(Real_t) that is >= (nx+1)*(nx+1) and getMaxEdgeSize() is the
\* smallest such multiple that is >= nx+1.
C30_MaxSizes ==
  pc = "constructed" =>
    /\ dom.maxPlaneSize = SmallestPadMultiple((args.nx + 1) * (args.nx + 1))
    /\ dom.maxEdgeSize = SmallestPadMultiple(args.nx + 1)

====
